---- MODULE Spec2Model ----
(***************************************************************************)
(* Distillation digital twin (sim.worker.js, P&ID v2.1.1): the fixed-step  *)
(* scheduler `simulate`, the QualityGate state machine, the interlock      *)
(* table, the PI controller and the reflux-drum level of DistilPlant.      *)
(*                                                                         *)
(* Numbers.  The source computes in IEEE doubles.  Each slice states its   *)
(* own scale:                                                              *)
(*   routing slice     time 1 tick = 0.5 s, temperatures 1 degC,           *)
(*                     rho15 0.001, level 1 %                              *)
(*   control loops     fixed point, 1 unit = 1/PIScale, with the overflow  *)
(*                     to Infinity and the NaN of IEEE arithmetic          *)
(*   drum level        1 unit = 0.1 %                                      *)
(*   loop clock        exact doubles, in units of 2^-53                    *)
(*                                                                         *)
(* Slices.  One iteration of the loop of `simulate` reads one PV record    *)
(* and updates (a) the routing state: gate, interlock activation, forced   *)
(* route, events, log; (b) each control loop: PI update, interlock         *)
(* override of its MV, re-tracking; (c) the clock ti.  They share only the *)
(* PV record, an input of the iteration, and are modelled apart:           *)
(*   Spec       routing of one run           SpecPair   routing of two     *)
(*   SpecLoop   one control loop             SpecPi     PI track / update  *)
(*   SpecLevel  drum level and its noise     SpecClock  the loop clock     *)
(*   SpecRuns   two successive calls of simulate                           *)
(***************************************************************************)
EXTENDS Integers, Sequences, FiniteSets, TLC

VARIABLES
    cfg,          \* the scenario passed to simulate (cfg.SIM, cfg.GATE, cfg.TEST)
    pc,           \* "loop" while the for-loop of simulate runs, "done" after it
    ti,           \* loop variable ti, in ticks
    nsamples,     \* log.t.length
    gate,         \* QualityGate: route, on_timer, off_timer
    gate2,        \* the gate of a second run of the same scenario, wider OFF band
    route_prev,   \* simulate's route_prev
    active_prev,  \* simulate's active_prev (names of the rules active last step)
    row,          \* the last row pushed to the log (route, analyzer_ok, t, ...)
    route0,       \* log.route[0] ("none" while the log is empty)
    stats,        \* running gate_stats and event counters of the run
    obs,          \* observers: lengths of the current runs of on_ok / off_bad,
                  \* and the route logged one step earlier
    ctl,          \* one control loop inside simulate: its PI, its MV, its log
    pi,           \* a PI controller on its own: track followed by update
    lvl,          \* DistilPlant: the drum level L and the L_v201 it reports
    clk,          \* the loop clock ti as the double it is, and log.t
    runs,         \* two successive calls of simulate and what each returned
    suite,        \* one test of run_test_suite: the whole closed loop of simulate
    fn            \* a function of the worker on its own: its input and its result

vars == <<cfg, pc, ti, nsamples, gate, gate2, route_prev, active_prev,
          row, route0, stats, obs, ctl, pi, lvl, clk, runs, suite, fn>>

\* the variables of the routing slice
routeVars == <<cfg, pc, ti, nsamples, gate, gate2, route_prev, active_prev,
               row, route0, stats, obs>>

\* the slices added after the first seven
lateVars == <<suite, fn>>

\* a slice that a specification does not exercise stays at this value
Idle == [slice |-> "idle"]

----------------------------------------------------------------------------
(* Bounds of the model *)

\* longest simulated run, in ticks (stands for cfg.SIM.sim_s)
MaxSimTicks == 5
\* largest gate delay explored, in ticks
MaxDelay == 3
\* extra widening of the OFF band of the second run's gate
MaxWiden == 1

----------------------------------------------------------------------------
(* Program constants: BASE_CONFIG *)

TT106_on_low == 60
TT106_on_high == 120
RHO_on_low == 700
RHO_on_high == 775
DTSUB_min == 5
PERM_L_min == 10
PERM_L_max == 90
T_feed_HH == 150
T_reb_HH == 200
T_cond_out_HH == 46
L_v201_HH == 95
L_v201_LL == 5
\* the auto hysteresis widening of build_cfg_from_params
WIDEN_TT == 2
WIDEN_RHO == 5
WIDEN_DTSUB == 1

Max(a, b) == IF a >= b THEN a ELSE b
Min(a, b) == IF a <= b THEN a ELSE b

\* cfg.GATE as build_cfg_from_params leaves it, the OFF band widened by `extra`
\* more than the program's own widening
GateCfg(delay_on, delay_off, extra) ==
    [ TT106_on_low   |-> TT106_on_low,
      TT106_on_high  |-> TT106_on_high,
      rho15_on_low   |-> RHO_on_low,
      rho15_on_high  |-> RHO_on_high,
      dTsub_min      |-> DTSUB_min,
      TT106_off_low  |-> TT106_on_low - WIDEN_TT - extra,
      TT106_off_high |-> TT106_on_high + WIDEN_TT + extra,
      rho15_off_low  |-> RHO_on_low - WIDEN_RHO - extra,
      rho15_off_high |-> RHO_on_high + WIDEN_RHO + extra,
      dTsub_min_off  |-> Max(0, DTSUB_min - WIDEN_DTSUB - extra),
      delay_on_s     |-> delay_on,
      delay_off_s    |-> delay_off,
      perm_L_min     |-> PERM_L_min,
      perm_L_max     |-> PERM_L_max ]

----------------------------------------------------------------------------
(* QualityGate *)

OnOk(c, TT106, rho15, dTsub) ==
    /\ c.TT106_on_low <= TT106 /\ TT106 <= c.TT106_on_high
    /\ c.rho15_on_low <= rho15 /\ rho15 <= c.rho15_on_high
    /\ dTsub >= c.dTsub_min

OffBad(c, TT106, rho15, dTsub) ==
    \/ TT106 < c.TT106_off_low \/ TT106 > c.TT106_off_high
    \/ rho15 < c.rho15_off_low \/ rho15 > c.rho15_off_high
    \/ dTsub < c.dTsub_min_off

GateNew == [route |-> "RECYCLE", on_timer |-> 0, off_timer |-> 0]

\* QualityGate.update with a timer that is not cleared when its condition lapses:
\* it adds up all the time the condition held, continuous or not
GateUpdate_TimerNotCleared(g, c, dt, TT106, rho15, dTsub, analyzer_ok, permissive_ok) ==
    IF ~analyzer_ok \/ ~permissive_ok
    THEN GateNew
    ELSE IF g.route = "RECYCLE"
    THEN LET t == g.on_timer + (IF OnOk(c, TT106, rho15, dTsub) THEN dt ELSE 0)
         IN  IF t >= c.delay_on_s
             THEN [route |-> "PRODUCT", on_timer |-> 0, off_timer |-> 0]
             ELSE [g EXCEPT !.on_timer = t]
    ELSE LET t == g.off_timer + (IF OffBad(c, TT106, rho15, dTsub) THEN dt ELSE 0)
         IN  IF t >= c.delay_off_s
             THEN [route |-> "RECYCLE", on_timer |-> 0, off_timer |-> 0]
             ELSE [g EXCEPT !.off_timer = t]

\* QualityGate.update that clears, on a change of route, only the timer of the
\* state it enters
GateUpdate_KeepsTimerOnSwitch(g, c, dt, TT106, rho15, dTsub, analyzer_ok, permissive_ok) ==
    IF ~analyzer_ok \/ ~permissive_ok
    THEN GateNew
    ELSE IF g.route = "RECYCLE"
    THEN LET t == IF OnOk(c, TT106, rho15, dTsub) THEN g.on_timer + dt ELSE 0
         IN  IF t >= c.delay_on_s
             THEN [route |-> "PRODUCT", on_timer |-> t, off_timer |-> 0]
             ELSE [g EXCEPT !.on_timer = t]
    ELSE LET t == IF OffBad(c, TT106, rho15, dTsub) THEN g.off_timer + dt ELSE 0
         IN  IF t >= c.delay_off_s
             THEN [route |-> "RECYCLE", on_timer |-> 0, off_timer |-> t]
             ELSE [g EXCEPT !.off_timer = t]

\* QualityGate.update that returns early on a lost analyzer only and takes no
\* notice of the level permissive
GateUpdate_IgnoresPermissive(g, c, dt, TT106, rho15, dTsub, analyzer_ok, permissive_ok) ==
    IF ~analyzer_ok
    THEN GateNew
    ELSE IF g.route = "RECYCLE"
    THEN LET t == IF OnOk(c, TT106, rho15, dTsub) THEN g.on_timer + dt ELSE 0
         IN  IF t >= c.delay_on_s
             THEN [route |-> "PRODUCT", on_timer |-> 0, off_timer |-> 0]
             ELSE [g EXCEPT !.on_timer = t]
    ELSE LET t == IF OffBad(c, TT106, rho15, dTsub) THEN g.off_timer + dt ELSE 0
         IN  IF t >= c.delay_off_s
             THEN [route |-> "RECYCLE", on_timer |-> 0, off_timer |-> 0]
             ELSE [g EXCEPT !.off_timer = t]

\* QualityGate.update: the gate after the call (the call returns its route)
GateUpdate(g, c, dt, TT106, rho15, dTsub, analyzer_ok, permissive_ok) ==
    IF ~analyzer_ok \/ ~permissive_ok
    THEN GateNew
    ELSE IF g.route = "RECYCLE"
    THEN LET t == IF OnOk(c, TT106, rho15, dTsub) THEN g.on_timer + dt ELSE 0
         IN  IF t >= c.delay_on_s
             THEN [route |-> "PRODUCT", on_timer |-> 0, off_timer |-> 0]
             ELSE [g EXCEPT !.on_timer = t]
    ELSE LET t == IF OffBad(c, TT106, rho15, dTsub) THEN g.off_timer + dt ELSE 0
         IN  IF t >= c.delay_off_s
             THEN [route |-> "RECYCLE", on_timer |-> 0, off_timer |-> 0]
             ELSE [g EXCEPT !.off_timer = t]

----------------------------------------------------------------------------
(* Interlock table *)

ILNames == {"IL-01", "IL-02", "IL-03", "IL-04", "IL-05", "IL-06"}

ILCond(name, pv) ==
    CASE name = "IL-01" -> pv.T_feed_out >= T_feed_HH
      [] name = "IL-02" -> pv.T_reb >= T_reb_HH
      [] name = "IL-03" -> pv.T_cond_out >= T_cond_out_HH
      [] name = "IL-04" -> pv.L_v201 >= L_v201_HH
      [] name = "IL-05" -> pv.L_v201 <= L_v201_LL
      [] name = "IL-06" -> ~pv.analyzer_ok

ActiveNow(pv) == {n \in ILNames : ILCond(n, pv)}

\* the table with IL-06 forcing the wrong route
ForceRoute_AnalyzerProduct(active) ==
    IF "IL-06" \in active THEN "PRODUCT"
    ELSE IF "IL-03" \in active THEN "RECYCLE" ELSE "null"

\* the table without the act of IL-03
ForceRoute_CondenserIgnored(active) ==
    IF "IL-06" \in active THEN "RECYCLE" ELSE "null"

\* mv.force_route after the walk of the table ("null" when no rule set it)
ForceRoute(active) ==
    IF "IL-03" \in active \/ "IL-06" \in active THEN "RECYCLE" ELSE "null"

\* the route logged for the step: the gate's, unless a rule forced one
FinalRoute(gate_route, force_route) ==
    IF force_route = "RECYCLE" \/ force_route = "PRODUCT"
    THEN force_route ELSE gate_route

----------------------------------------------------------------------------
(* The PV record of one step.  plant.update is the environment of the      *)
(* routing slice: with noise every measured value can move, so the values  *)
(* are drawn from sets that hold one value on each side of every threshold *)
(* the gate and the interlocks compare with.                               *)

TT106Vals == {59, 95}
RhoVals == {740, 781, 785}
TT201Vals == {95}
TcondVals == {35, 46}
LevelVals == {50, PERM_L_max, 95}
TfeedVals == {120}
TrebVals == {165}

\* the analyzer schedule failing one step late: still good at t_analyzer_fail
AnalyzerOk_FailsLate(c, t) ==
    IF c.analyzer_fail_enable THEN t <= c.t_analyzer_fail ELSE TRUE

\* plant.analyzer_ok as the loop sets it before plant.update
AnalyzerOk(c, t) ==
    IF c.analyzer_fail_enable THEN t < c.t_analyzer_fail ELSE TRUE

\* the density between the two OFF bands matters to a pair of gates only
RhoValsFor(c) == IF c.widen2 = 0 THEN RhoVals \ {781} ELSE RhoVals

\* the level exactly at the permissive limit matters to the single gate only
LevelValsFor(c) == IF c.widen2 = 0 THEN LevelVals ELSE LevelVals \ {PERM_L_max}

\* the level is at or above the permissive limit only while the condenser outlet is
\* normal: both force the same route, and each is drawn with every state of the gate
PvRecords(c, t) ==
    { pv \in [ TT106 : TT106Vals, rho15 : RhoValsFor(c), TT201 : TT201Vals,
               T_cond_out : TcondVals, L_v201 : LevelValsFor(c),
               T_feed_out : TfeedVals, T_reb : TrebVals,
               analyzer_ok : {AnalyzerOk(c, t)} ] :
        pv.L_v201 >= PERM_L_max => pv.T_cond_out < T_cond_out_HH }

----------------------------------------------------------------------------
(* simulate: construction, and one iteration of its loop *)

CeilDiv(a, b) == (a + b - 1) \div b

\* dt of 0.5 s and 1 s; the analyzer, when its failure is enabled, fails at 1 s
Scenarios ==
    [ dt : {1, 2},
      sim_s : {MaxSimTicks},
      delay_on_s : 0..MaxDelay,
      delay_off_s : 0..MaxDelay,
      widen2 : {0},
      analyzer_fail_enable : BOOLEAN,
      t_analyzer_fail : {2} ]

\* the same scenarios for a pair of runs whose gates differ in the OFF band only
ScenariosPair ==
    [ dt : {1, 2},
      sim_s : {MaxSimTicks},
      delay_on_s : 0..MaxDelay,
      delay_off_s : 0..MaxDelay,
      widen2 : {MaxWiden},
      analyzer_fail_enable : BOOLEAN,
      t_analyzer_fail : {2} ]

\* the event pushes of a step without the loop over became_clear
ILEvents_OnOnly(t, active_before, active_now) ==
    {[t |-> t, kind |-> "INTERLOCK_ON", name |-> n] : n \in active_now \ active_before}

\* the interlock events a step pushes to event_log: [ti, "INTERLOCK_ON: name"]
\* for the rules that became active, [ti, "INTERLOCK_OFF: name"] for the rules
\* that became clear
ILEvents(t, active_before, active_now) ==
    {[t |-> t, kind |-> "INTERLOCK_ON", name |-> n] : n \in active_now \ active_before}
    \cup
    {[t |-> t, kind |-> "INTERLOCK_OFF", name |-> n] : n \in active_before \ active_now}

\* the last row of the log, with the events that its step pushed
RowNone == [t |-> -1, route |-> "none", route2 |-> "none", analyzer_ok |-> TRUE,
            permissive_ok |-> TRUE, forced |-> "null", T_cond_out |-> 0,
            T_feed_out |-> 0, T_reb |-> 0, L_v201 |-> 50,
            events |-> {}]

\* the state simulate builds before its loop (lines 487-544)
SimulateInit ==
    /\ pc = "loop"
    /\ ti = 0
    /\ nsamples = 0
    /\ gate = GateNew
    /\ gate2 = GateNew
    /\ route_prev = "RECYCLE"
    /\ active_prev = {}
    /\ row = RowNone
    /\ route0 = "none"
    /\ stats = [switches |-> 0, switches2 |-> 0, n_gate_switch |-> 0]
    /\ obs = [on_run |-> 0, off_run |-> 0, route_before |-> "none"]

Init ==
    /\ cfg \in Scenarios
    /\ SimulateInit
    /\ ctl = Idle /\ pi = Idle /\ lvl = Idle /\ clk = Idle /\ runs = Idle
    /\ suite = Idle /\ fn = Idle

\* the body of the for-loop, for the PV record pv returned by plant.update
StepWith(pv) ==
    LET c1 == GateCfg(cfg.delay_on_s, cfg.delay_off_s, 0)
        c2 == GateCfg(cfg.delay_on_s, cfg.delay_off_s, cfg.widen2)
        dTsub == pv.TT201 - pv.T_cond_out
        permissive_ok == c1.perm_L_min < pv.L_v201 /\ pv.L_v201 < c1.perm_L_max
        g1 == GateUpdate(gate, c1, cfg.dt, pv.TT106, pv.rho15, dTsub,
                         pv.analyzer_ok, permissive_ok)
        g2 == GateUpdate(gate2, c2, cfg.dt, pv.TT106, pv.rho15, dTsub,
                         pv.analyzer_ok, permissive_ok)
        active_now == ActiveNow(pv)
        force == ForceRoute(active_now)
        route == FinalRoute(g1.route, force)
        route2 == FinalRoute(g2.route, force)
        on_ok == OnOk(c1, pv.TT106, pv.rho15, dTsub)
        off_bad == OffBad(c1, pv.TT106, pv.rho15, dTsub)
    IN  /\ gate' = g1
        /\ gate2' = g2
        /\ route_prev' = route
        /\ active_prev' = active_now
        /\ row' = [t |-> ti, route |-> route, route2 |-> route2,
                   analyzer_ok |-> pv.analyzer_ok,
                   permissive_ok |-> permissive_ok, forced |-> force,
                   T_cond_out |-> pv.T_cond_out,
                   T_feed_out |-> pv.T_feed_out, T_reb |-> pv.T_reb,
                   L_v201 |-> pv.L_v201,
                   events |-> ILEvents(ti, active_prev, active_now)]
        /\ route0' = IF nsamples = 0 THEN route ELSE route0
        /\ stats' = [switches |-> stats.switches
                          + (IF nsamples > 0 /\ route # row.route THEN 1 ELSE 0),
                     switches2 |-> stats.switches2
                          + (IF nsamples > 0 /\ route2 # row.route2 THEN 1 ELSE 0),
                     n_gate_switch |-> stats.n_gate_switch
                          + (IF route # route_prev THEN 1 ELSE 0)]
        /\ obs' = [on_run |-> IF on_ok /\ pv.analyzer_ok /\ permissive_ok
                              THEN Min(obs.on_run + 1, MaxDelay + 1) ELSE 0,
                   off_run |-> IF off_bad
                               THEN Min(obs.off_run + 1, MaxDelay + 1) ELSE 0,
                   route_before |-> row.route]
        /\ nsamples' = nsamples + 1
        /\ ti' = ti + cfg.dt

Step ==
    /\ pc = "loop"
    /\ ti <= cfg.sim_s
    /\ \E pv \in PvRecords(cfg, ti) : StepWith(pv)
    /\ UNCHANGED <<cfg, pc, ctl, pi, lvl, clk, runs, lateVars>>

\* the loop condition fails: simulate returns {log, event_log}
Return ==
    /\ pc = "loop"
    /\ ti > cfg.sim_s
    /\ pc' = "done"
    /\ UNCHANGED <<cfg, ti, nsamples, gate, gate2, route_prev, active_prev,
                   row, route0, stats, obs, ctl, pi, lvl, clk, runs, lateVars>>

Next == Step \/ Return

Spec == Init /\ [][Next]_vars

\* two runs of one scenario, side by side: gate with the program's OFF band,
\* gate2 with a wider one, both fed the same PV, analyzer and interlock sequence
InitPair ==
    /\ cfg \in ScenariosPair
    /\ SimulateInit
    /\ ctl = Idle /\ pi = Idle /\ lvl = Idle /\ clk = Idle /\ runs = Idle
    /\ suite = Idle /\ fn = Idle

SpecPair == InitPair /\ [][Next]_vars

----------------------------------------------------------------------------
(* Claims on the routing slice *)

Logged == nsamples > 0
DelayOnSteps == CeilDiv(cfg.delay_on_s, cfg.dt)
DelayOffSteps == CeilDiv(cfg.delay_off_s, cfg.dt)
\* the logged route went RECYCLE -> PRODUCT at the last step (or is PRODUCT at step 0)
Promoted == Logged /\ row.route = "PRODUCT" /\ obs.route_before # "PRODUCT"
\* the logged route went PRODUCT -> RECYCLE at the last step
Demoted == Logged /\ row.route = "RECYCLE" /\ obs.route_before = "PRODUCT"

\* C1: at every step where analyzer_ok is false the logged route is RECYCLE.
C1_AnalyzerFailRecycle ==
    (Logged /\ ~row.analyzer_ok) => row.route = "RECYCLE"

\* C1 witness: the analyzer fails at a step that follows a PRODUCT step.
C1_Witness ==
    Logged /\ ~row.analyzer_ok /\ obs.route_before = "PRODUCT" /\ row.route = "RECYCLE"

\* C2 as claimed: the logged route becomes PRODUCT (after RECYCLE, or at step 0)
\* only if on_ok, analyzer_ok and permissive_ok held at each of the last
\* ceil(delay_on_s/dt) steps, also after an interlock-forced RECYCLE.
C2_PromotionNeedsOnDelay ==
    Promoted => obs.on_run >= DelayOnSteps

\* C3 as claimed: the logged route becomes RECYCLE after PRODUCT only if off_bad
\* held at each of the last ceil(delay_off_s/dt) steps.
C3_DemotionNeedsOffDelay ==
    Demoted => obs.off_run >= DelayOffSteps

\* C3 amended: the logged route becomes RECYCLE after PRODUCT only if off_bad held
\* at each of the last ceil(delay_off_s/dt) steps, or at that step analyzer_ok is
\* false, or permissive_ok is false, or an interlock forces RECYCLE.
C3_DemotionDelayOrForced ==
    Demoted =>
        \/ obs.off_run >= DelayOffSteps
        \/ ~row.analyzer_ok
        \/ ~row.permissive_ok
        \/ row.forced = "RECYCLE"

\* C3 witness: a demotion by the off timer alone, after more than one step of off_bad.
C3_Witness ==
    /\ Demoted /\ row.analyzer_ok /\ row.permissive_ok /\ row.forced = "null"
    /\ DelayOffSteps >= 2 /\ obs.off_run >= DelayOffSteps

\* C4 as claimed: every logged route is RECYCLE or PRODUCT and route[0] is RECYCLE,
\* for every accepted g_delay_on.
C4_FirstRouteRecycle ==
    Logged => (row.route \in {"RECYCLE", "PRODUCT"} /\ route0 = "RECYCLE")

\* C10: with the same ON thresholds and delays and a wider OFF band, the second
\* run's route[] never has more switches than the first run's.
C10_WiderOffNoMoreSwitches ==
    stats.switches2 <= stats.switches


\* C12: in every step whose T_cond_out is at or above T_cond_out_HH the logged
\* route is RECYCLE; and when the step before had T_cond_out below the limit,
\* or there was no step before, the step pushes an INTERLOCK_ON event that
\* names IL-03, with the step's own time.
C12_CondenserHighRecycle ==
    /\ [](row.t >= 0 /\ row.T_cond_out >= T_cond_out_HH => row.route = "RECYCLE")
    /\ [][(/\ row'.t # row.t
           /\ row'.T_cond_out >= T_cond_out_HH
           /\ (row.t < 0 \/ row.T_cond_out < T_cond_out_HH))
          => [t |-> row'.t, kind |-> "INTERLOCK_ON", name |-> "IL-03"] \in row'.events]_vars

\* C12 witness: a step after the first with T_cond_out at the limit, in which
\* the gate computed PRODUCT, RECYCLE was logged and the event was pushed
C12_Witness ==
    /\ row.t > 0 /\ row.T_cond_out >= T_cond_out_HH
    /\ gate.route = "PRODUCT" /\ row.route = "RECYCLE"
    /\ [t |-> row.t, kind |-> "INTERLOCK_ON", name |-> "IL-03"] \in row.events

\* the rule's condition on the PV columns logged for a step (none before the
\* first step)
RowCond(name, r) == r.t >= 0 /\ ILCond(name, r)

\* C23: for every interlock rule, a step logs INTERLOCK_ON exactly when the
\* rule's condition holds at the step and did not hold at the step before (or
\* there was none), and INTERLOCK_OFF exactly when it held at the step before
\* and does not hold now; every such event carries the step's time.
C23_InterlockEventsOnEdges ==
    [][row'.t # row.t =>
         /\ \A n \in ILNames :
               /\ ([t |-> row'.t, kind |-> "INTERLOCK_ON", name |-> n] \in row'.events)
                     <=> (RowCond(n, row') /\ ~RowCond(n, row))
               /\ ([t |-> row'.t, kind |-> "INTERLOCK_OFF", name |-> n] \in row'.events)
                     <=> (RowCond(n, row) /\ ~RowCond(n, row'))
         /\ \A e \in row'.events : e.t = row'.t]_vars

C23_Witness ==
    /\ row.t > 0
    /\ [t |-> row.t, kind |-> "INTERLOCK_OFF", name |-> "IL-03"] \in row.events
    /\ [t |-> row.t, kind |-> "INTERLOCK_ON", name |-> "IL-04"] \in row.events
    /\ "IL-06" \in active_prev /\ Cardinality(row.events) = 2

\* C26: the gate starts in RECYCLE with both timers at 0; after any sequence
\* of update calls both timers are >= 0, on_timer is 0 whenever the gate's
\* route is PRODUCT, off_timer is 0 whenever it is RECYCLE, and both timers
\* are 0 right after every call that changed the gate's route.
C26_GateTimers ==
    /\ [](nsamples = 0 => gate = GateNew)
    /\ [](/\ gate.on_timer >= 0 /\ gate.off_timer >= 0
          /\ gate.route = "PRODUCT" => gate.on_timer = 0
          /\ gate.route = "RECYCLE" => gate.off_timer = 0)
    /\ [][gate'.route # gate.route
            => gate'.on_timer = 0 /\ gate'.off_timer = 0]_vars

C26_Witness ==
    /\ nsamples > 2 /\ cfg.delay_on_s > cfg.dt /\ ~cfg.analyzer_fail_enable
    /\ gate.route = "PRODUCT" /\ obs.route_before = "RECYCLE" /\ row.route = "PRODUCT"
    /\ gate.on_timer = 0 /\ gate.off_timer = 0

\* C27: at every step where the measured L_v201 is not strictly inside
\* (perm_L_min, perm_L_max) the logged route is RECYCLE and, after the step, the
\* gate is in RECYCLE with both timers 0 and no qualifying step counted; the gate
\* leaves RECYCLE only at a step that completes ceil(delay_on_s/dt) consecutive
\* steps of on_ok with analyzer and permissive in order, and the logged route is
\* PRODUCT only while the gate is.
C27_PermissiveLossRestartsDelay ==
    /\ []((Logged /\ ~(PERM_L_min < row.L_v201 /\ row.L_v201 < PERM_L_max))
            => /\ row.route = "RECYCLE"
               /\ gate = GateNew
               /\ obs.on_run = 0)
    /\ [](row.route = "PRODUCT" => gate.route = "PRODUCT")
    /\ [][(gate.route = "RECYCLE" /\ gate'.route = "PRODUCT")
            => obs'.on_run >= DelayOnSteps]_vars

\* C27 witness: the level is exactly perm_L_max at a step that follows a PRODUCT
\* step, with the analyzer in order and no interlock active.
C27_Witness ==
    /\ Logged /\ obs.route_before = "PRODUCT"
    /\ row.L_v201 = PERM_L_max /\ row.analyzer_ok /\ row.forced = "null"
    /\ active_prev = {}
    /\ row.route = "RECYCLE" /\ gate = GateNew

\* C30 as claimed: in every run the number of GATE_SWITCH events pushed to the
\* event log equals the number of switches gate_stats counts over route[].
C30_GateSwitchEventsAreSwitches ==
    Logged => stats.n_gate_switch = stats.switches

\* the count that holds: the events are the switches of route[], and one more
\* when route[0] is PRODUCT
C30_EventsCountFirstRoute ==
    Logged => stats.n_gate_switch
                = stats.switches + (IF route0 = "PRODUCT" THEN 1 ELSE 0)

----------------------------------------------------------------------------
(* The numbers of the control loops.  A double is modelled as a fixed-point *)
(* integer (1 unit = 1/PIScale) of magnitude at most MaxFinite, or one of   *)
(* the three special values of IEEE arithmetic.  A finite result beyond     *)
(* MaxFinite overflows to an infinity, as a double does beyond             *)
(* Number.MAX_VALUE; inf - inf and 0 * inf are NaN; Math.min and Math.max   *)
(* return NaN when an argument is NaN; every comparison with NaN is false.  *)

\* fixed-point resolution of the loop quantities: 1 unit = 0.01
PIScale == 100
\* largest finite magnitude (stands for Number.MAX_VALUE)
MaxFinite == 10000000

PInf == MaxFinite + 1
NInf == 0 - (MaxFinite + 1)
NaN == MaxFinite + 2

IsFinite(x) == NInf < x /\ x < PInf

Abs(x) == IF x >= 0 THEN x ELSE 0 - x

\* a / d rounded to the nearest integer, d > 0
RoundDiv(a, d) ==
    IF a >= 0 THEN (2 * a + d) \div (2 * d)
    ELSE 0 - ((2 * (0 - a) + d) \div (2 * d))

\* a finite result, overflowing to an infinity
FNorm(x) == IF x > MaxFinite THEN PInf ELSE IF x < 0 - MaxFinite THEN NInf ELSE x

FNeg(a) == IF a = NaN THEN NaN ELSE 0 - a

FAdd(a, b) ==
    IF a = NaN \/ b = NaN THEN NaN
    ELSE IF a = PInf THEN (IF b = NInf THEN NaN ELSE PInf)
    ELSE IF a = NInf THEN (IF b = PInf THEN NaN ELSE NInf)
    ELSE IF b = PInf \/ b = NInf THEN b
    ELSE FNorm(a + b)

FSub(a, b) == FAdd(a, FNeg(b))

\* x * (r.n / r.d) for a finite factor r.n / r.d >= 0
FMul(x, r) ==
    IF x = NaN THEN NaN
    ELSE IF x = PInf \/ x = NInf THEN (IF r.n = 0 THEN NaN ELSE x)
    ELSE FNorm(RoundDiv(x * r.n, r.d))

\* x / (r.n / r.d) for a finite divisor r.n / r.d > 0
FDiv(x, r) ==
    IF x = NaN THEN NaN
    ELSE IF x = PInf \/ x = NInf THEN x
    ELSE FNorm(RoundDiv(x * r.d, r.n))

JsMin(a, b) == IF a = NaN \/ b = NaN THEN NaN ELSE IF a <= b THEN a ELSE b
JsMax(a, b) == IF a = NaN \/ b = NaN THEN NaN ELSE IF a >= b THEN a ELSE b

\* clamp(x, lo, hi) = Math.max(lo, Math.min(hi, Number(x)))
Clamp(x, lo, hi) == JsMax(lo, JsMin(hi, x))

\* a > b on doubles: false when either is NaN
FGreater(a, b) == a # NaN /\ b # NaN /\ a > b

----------------------------------------------------------------------------
(* class PI *)

\* the state the constructor leaves
PINew(c) == [I |-> 0, u_prev |-> Clamp(c.bias, c.out_min, c.out_max)]

PIErr(c, sp, pv) == IF c.action = "reverse" THEN FSub(pv, sp) ELSE FSub(sp, pv)

PIReset(c, u0) == [I |-> 0, u_prev |-> Clamp(u0, c.out_min, c.out_max)]

\* PI.track: |Kp| < 1e-9 is Kp = 0 for the gains the model draws
PITrack(c, s, u_actual, sp, pv) ==
    LET u == Clamp(u_actual, c.out_min, c.out_max)
        e == PIErr(c, sp, pv)
    IN  IF c.Kp.n = 0
        THEN [I |-> 0, u_prev |-> u]
        ELSE [I |-> FSub(FDiv(FSub(u, c.bias), c.Kp), e), u_prev |-> u]

\* PI.update: the state after the call; the value returned is its u_prev
PIUpdate(c, s, sp, pv) ==
    LET e == PIErr(c, sp, pv)
        I1 == FAdd(s.I, FMul(e, c.dtTi))
        u_unsat == FAdd(c.bias, FMul(FAdd(e, I1), c.Kp))
        u == Clamp(u_unsat, c.out_min, c.out_max)
    IN  [I |-> FAdd(I1, FMul(FSub(u, u_unsat), c.aw)), u_prev |-> u]

----------------------------------------------------------------------------
(* One control loop inside simulate.  FIC101 drives u_feed, which no rule   *)
(* of the interlock table touches; TIC101 drives u_steam_pre, which IL-01   *)
(* sets to 0; LIC201 drives u_draw, which IL-04 and IL-05 override.  The    *)
(* loop's PV is the environment, drawn at every step.                       *)

\* longest run of a loop, in steps
MaxLoopSteps == 8

U_draw_force_high == 90
U_draw_force_low == 0

LoopNames == {"FIC101", "TIC101", "TIC102", "LIC201"}

\* what build_cfg_from_params accepts for Kp: 0, the base tuning, a large gain
KpVals(name) ==
    {[n |-> 0, d |-> 1],
     IF name = "LIC201" THEN [n |-> 4, d |-> 5] ELSE [n |-> 6, d |-> 5],
     [n |-> 50, d |-> 1]}

\* cfg.LOOP[name] with LIC201 left at the constructor's default action, direct
LoopCfg_LicDirect(name, Kp) ==
    IF name = "FIC101"
    THEN [Kp |-> Kp, dtTi |-> [n |-> 1, d |-> 40], bias |-> 50 * PIScale,
          aw |-> [n |-> 3, d |-> 25], action |-> "direct",
          out_min |-> 0, out_max |-> 100 * PIScale,
          sp |-> 50 * PIScale, mv_init |-> 50 * PIScale]
    ELSE IF name = "TIC101"
    THEN [Kp |-> Kp, dtTi |-> [n |-> 1, d |-> 180], bias |-> 35 * PIScale,
          aw |-> [n |-> 3, d |-> 20], action |-> "direct",
          out_min |-> 0, out_max |-> 100 * PIScale,
          sp |-> 120 * PIScale, mv_init |-> 35 * PIScale]
    ELSE IF name = "TIC102"
    THEN [Kp |-> Kp, dtTi |-> [n |-> 1, d |-> 220], bias |-> 40 * PIScale,
          aw |-> [n |-> 3, d |-> 20], action |-> "direct",
          out_min |-> 0, out_max |-> 100 * PIScale,
          sp |-> 165 * PIScale, mv_init |-> 40 * PIScale]
    ELSE [Kp |-> Kp, dtTi |-> [n |-> 1, d |-> 400], bias |-> 25 * PIScale,
          aw |-> [n |-> 2, d |-> 25], action |-> "direct",
          out_min |-> 0, out_max |-> 100 * PIScale,
          sp |-> 50 * PIScale, mv_init |-> 25 * PIScale]

\* cfg.LOOP[name] with dt = 1 s, and the loop's setpoint and initial MV
LoopCfg(name, Kp) ==
    IF name = "FIC101"
    THEN [Kp |-> Kp, dtTi |-> [n |-> 1, d |-> 40], bias |-> 50 * PIScale,
          aw |-> [n |-> 3, d |-> 25], action |-> "direct",
          out_min |-> 0, out_max |-> 100 * PIScale,
          sp |-> 50 * PIScale, mv_init |-> 50 * PIScale]
    ELSE IF name = "TIC101"
    THEN [Kp |-> Kp, dtTi |-> [n |-> 1, d |-> 180], bias |-> 35 * PIScale,
          aw |-> [n |-> 3, d |-> 20], action |-> "direct",
          out_min |-> 0, out_max |-> 100 * PIScale,
          sp |-> 120 * PIScale, mv_init |-> 35 * PIScale]
    ELSE IF name = "TIC102"
    THEN [Kp |-> Kp, dtTi |-> [n |-> 1, d |-> 220], bias |-> 40 * PIScale,
          aw |-> [n |-> 3, d |-> 20], action |-> "direct",
          out_min |-> 0, out_max |-> 100 * PIScale,
          sp |-> 165 * PIScale, mv_init |-> 40 * PIScale]
    ELSE [Kp |-> Kp, dtTi |-> [n |-> 1, d |-> 400], bias |-> 25 * PIScale,
          aw |-> [n |-> 2, d |-> 25], action |-> "reverse",
          out_min |-> 0, out_max |-> 100 * PIScale,
          sp |-> 50 * PIScale, mv_init |-> 25 * PIScale]

\* the values the loop's PV takes: F_feed, T_feed_out or T_reb below and at its
\* limit, or L_v201 at and between its limits
LoopPvVals(name) ==
    IF name = "FIC101"
    THEN {40 * PIScale, 50 * PIScale, 60 * PIScale}
    ELSE IF name = "TIC101"
    THEN {110 * PIScale, 120 * PIScale, T_feed_HH * PIScale}
    ELSE IF name = "TIC102"
    THEN {160 * PIScale, 165 * PIScale, T_reb_HH * PIScale}
    ELSE {L_v201_LL * PIScale, 50 * PIScale, L_v201_HH * PIScale}

\* the rules of the table that act on the loop's MV, applied in table order
ILAct(name, pv, u) ==
    IF name = "FIC101" THEN u
    ELSE IF name = "TIC101" THEN (IF pv >= T_feed_HH * PIScale THEN 0 ELSE u)
    ELSE IF name = "TIC102" THEN (IF pv >= T_reb_HH * PIScale THEN 0 ELSE u)
    ELSE LET u4 == IF pv >= L_v201_HH * PIScale
                   THEN JsMax(u, U_draw_force_high * PIScale) ELSE u
         IN  IF pv <= L_v201_LL * PIScale
             THEN JsMin(u4, U_draw_force_low * PIScale) ELSE u4

\* the loop as simulate builds it: new PI, reset(mv)
LoopInit ==
    /\ \E name \in LoopNames : \E Kp \in KpVals(name) :
         LET c == LoopCfg(name, Kp)
         IN  ctl = [name |-> name, c |-> c, pid |-> PIReset(c, c.mv_init),
                    init_done |-> FALSE, mv |-> c.mv_init, k |-> 0,
                    pv |-> c.sp, u_plant |-> c.mv_init,
                    overridden |-> FALSE, done |-> FALSE]
    /\ cfg = Idle /\ pc = "idle" /\ ti = 0 /\ nsamples = 0
    /\ gate = GateNew /\ gate2 = GateNew /\ route_prev = "RECYCLE"
    /\ active_prev = {} /\ row = RowNone /\ route0 = "none"
    /\ stats = Idle /\ obs = Idle
    /\ pi = Idle /\ lvl = Idle /\ clk = Idle /\ runs = Idle
    /\ suite = Idle /\ fn = Idle

\* one iteration for the loop: first-step track, update, interlock override,
\* re-track of an overridden MV, push of the MV to the log
LoopStepWith(pv) ==
    LET c == ctl.c
        s0 == IF ~ctl.init_done THEN PITrack(c, ctl.pid, ctl.mv, c.sp, pv)
              ELSE ctl.pid
        s1 == PIUpdate(c, s0, c.sp, pv)
        mv_before_il == s1.u_prev
        mv_il == ILAct(ctl.name, pv, mv_before_il)
        changed == FGreater(Abs(FSub(mv_il, mv_before_il)), 0)
        s2 == IF changed THEN PITrack(c, s1, mv_il, c.sp, pv) ELSE s1
    IN  ctl' = [ctl EXCEPT !.pid = s2, !.init_done = TRUE, !.mv = mv_il,
                           !.k = ctl.k + 1, !.pv = pv, !.u_plant = ctl.mv,
                           !.overridden = changed]

LoopStep ==
    /\ ctl.done = FALSE
    /\ ctl.k < MaxLoopSteps
    /\ \E pv \in LoopPvVals(ctl.name) : LoopStepWith(pv)
    /\ UNCHANGED <<routeVars, lateVars, pi, lvl, clk, runs>>

LoopReturn ==
    /\ ctl.done = FALSE
    /\ ctl.k = MaxLoopSteps
    /\ ctl' = [ctl EXCEPT !.done = TRUE]
    /\ UNCHANGED <<routeVars, lateVars, pi, lvl, clk, runs>>

NextLoop == LoopStep \/ LoopReturn

SpecLoop == LoopInit /\ [][NextLoop]_vars

\* C5 as claimed: every logged MV lies in [0,100], also at a step where an
\* interlock rule overrides it.
C5_LoggedMvInRange ==
    ctl.k > 0 => (ctl.mv # NaN /\ 0 <= ctl.mv /\ ctl.mv <= 100 * PIScale)

\* C22: at the end of every step the controller's u_prev is the MV logged for
\* its loop at that step, also at a step where an interlock rule overrode the
\* MV after the controller's update.  (A unit of the loop is 0.01, so two
\* values within 1e-6 are the same value; a NaN counts as equal to a NaN.)
C22_UPrevIsLoggedMv ==
    ctl.k > 0 => ctl.pid.u_prev = ctl.mv

\* the same statement for the steps that leave the controller's output a number
C22_FiniteUPrevIsLoggedMv ==
    (ctl.k > 0 /\ ctl.pid.u_prev # NaN) => ctl.pid.u_prev = ctl.mv

\* C28 as claimed: at every step, T_feed_out >= T_feed_HH gives a logged
\* u_steam_pre of 0, T_reb >= T_reb_HH a logged u_steam_reb of 0,
\* L_v201 >= L_v201_HH a logged u_draw >= u_draw_force_high and
\* L_v201 <= L_v201_LL a logged u_draw <= u_draw_force_low; and the plant's
\* update of the next step is given the logged (overridden) value.
C28_InterlockOverridesMv ==
    /\ [](ctl.k > 0 =>
            /\ (ctl.name = "TIC101" /\ ctl.pv >= T_feed_HH * PIScale) => ctl.mv = 0
            /\ (ctl.name = "TIC102" /\ ctl.pv >= T_reb_HH * PIScale) => ctl.mv = 0
            /\ (ctl.name = "LIC201" /\ ctl.pv >= L_v201_HH * PIScale)
                 => (ctl.mv # NaN /\ ctl.mv >= U_draw_force_high * PIScale)
            /\ (ctl.name = "LIC201" /\ ctl.pv <= L_v201_LL * PIScale)
                 => (ctl.mv # NaN /\ ctl.mv <= U_draw_force_low * PIScale))
    /\ [][ctl'.k = ctl.k + 1 => ctl'.u_plant = ctl.mv]_vars

\* the same statement with the two level rules taken for the steps at which
\* LIC201 returned a number
C28_OverridesWhenOutputIsNumber ==
    /\ [](ctl.k > 0 =>
            /\ (ctl.name = "TIC101" /\ ctl.pv >= T_feed_HH * PIScale) => ctl.mv = 0
            /\ (ctl.name = "TIC102" /\ ctl.pv >= T_reb_HH * PIScale) => ctl.mv = 0
            /\ (ctl.name = "LIC201" /\ ctl.pv >= L_v201_HH * PIScale /\ ctl.mv # NaN)
                 => ctl.mv >= U_draw_force_high * PIScale
            /\ (ctl.name = "LIC201" /\ ctl.pv <= L_v201_LL * PIScale /\ ctl.mv # NaN)
                 => ctl.mv <= U_draw_force_low * PIScale)
    /\ [][ctl'.k = ctl.k + 1 => ctl'.u_plant = ctl.mv]_vars

----------------------------------------------------------------------------
(* A PI controller on its own: new PI(c), then track(u, sp, pv), then one   *)
(* update(sp, pv) with the same sp and pv.                                  *)

\* admissible tunings: Kp >= 0 with Kp = 0 among them, Ti > 0, either action
PiCfgs ==
    { [Kp |-> Kp, dtTi |-> dtTi, bias |-> bias, aw |-> [n |-> 3, d |-> 25],
       action |-> action, out_min |-> 0, out_max |-> 100 * PIScale] :
         Kp \in {[n |-> 0, d |-> 1], [n |-> 4, d |-> 5], [n |-> 2, d |-> 1]},
         dtTi \in {[n |-> 1, d |-> 40]},
         bias \in {25 * PIScale, 50 * PIScale},
         action \in {"direct", "reverse"} }

\* u in [out_min, out_max]
PiUVals == {0, 25 * PIScale, 50 * PIScale, 90 * PIScale, 100 * PIScale}
PiSpVals == {50 * PIScale}
PiPvVals == {40 * PIScale, 50 * PIScale, 60 * PIScale}

PiInit ==
    /\ \E c \in PiCfgs : \E u \in PiUVals : \E sp \in PiSpVals : \E pv \in PiPvVals :
         pi = [c |-> c, s |-> PINew(c), u |-> u, sp |-> sp, pv |-> pv,
               out |-> 0, phase |-> "new"]
    /\ cfg = Idle /\ pc = "idle" /\ ti = 0 /\ nsamples = 0
    /\ gate = GateNew /\ gate2 = GateNew /\ route_prev = "RECYCLE"
    /\ active_prev = {} /\ row = RowNone /\ route0 = "none"
    /\ stats = Idle /\ obs = Idle
    /\ ctl = Idle /\ lvl = Idle /\ clk = Idle /\ runs = Idle
    /\ suite = Idle /\ fn = Idle

PiTrack ==
    /\ pi.phase = "new"
    /\ pi' = [pi EXCEPT !.s = PITrack(pi.c, pi.s, pi.u, pi.sp, pi.pv),
                        !.phase = "tracked"]
    /\ UNCHANGED <<routeVars, lateVars, ctl, lvl, clk, runs>>

PiUpdate ==
    /\ pi.phase = "tracked"
    /\ LET s == PIUpdate(pi.c, pi.s, pi.sp, pi.pv)
       IN  pi' = [pi EXCEPT !.s = s, !.out = s.u_prev, !.phase = "updated"]
    /\ UNCHANGED <<routeVars, lateVars, ctl, lvl, clk, runs>>

NextPi == PiTrack \/ PiUpdate

SpecPi == PiInit /\ [][NextPi]_vars

\* C9 as claimed: after track(u, sp, pv), one update(sp, pv) returns exactly u
\* when e = 0, and otherwise a value within (dt/Ti)*|e| of u, for every Kp >= 0.
C9_BumplessRoundTrip ==
    pi.phase = "updated" =>
        LET e == PIErr(pi.c, pi.sp, pi.pv)
        IN  IF e = 0 THEN pi.out = pi.u
            ELSE Abs(pi.out - pi.u) <= Abs(FMul(e, pi.c.dtTi))

----------------------------------------------------------------------------
(* DistilPlant: the reflux-drum level.  1 unit = 0.1 %.  The net inflow      *)
(* F_cond_in - F_reflux - F_draw of a step is the environment: at dt = 5 s a *)
(* net flow of 28 moves the level by 0.7 %.  randn() * 0.2 is drawn from one *)
(* standard deviation either side of zero.                                   *)

LevelScale == 10

\* dL of one step: draining, balanced, filling
DLVals == {0 - 7, 0, 7}
\* randn() * 0.2, in units of 0.1 %
LevelNoiseVals == {0 - 2, 0, 2}

\* this.L = clamp(this.L + dL, 0.0, 100.0)
PlantLevel(L, dL) == Max(0, Min(100 * LevelScale, L + dL))

\* pv.L_v201 as plant.update returns it
ReportedLevel(L, noise, w) == IF noise THEN L + w ELSE L

LevelInit ==
    /\ \E noise \in BOOLEAN :
         lvl = [noise |-> noise, L |-> 50 * LevelScale,
                L_v201 |-> 50 * LevelScale, logged |-> FALSE]
    /\ cfg = Idle /\ pc = "idle" /\ ti = 0 /\ nsamples = 0
    /\ gate = GateNew /\ gate2 = GateNew /\ route_prev = "RECYCLE"
    /\ active_prev = {} /\ row = RowNone /\ route0 = "none"
    /\ stats = Idle /\ obs = Idle
    /\ ctl = Idle /\ pi = Idle /\ clk = Idle /\ runs = Idle
    /\ suite = Idle /\ fn = Idle

\* plant.update for the level, and log.L_v201.push(pv.L_v201)
LevelStep ==
    /\ \E dL \in DLVals : \E w \in LevelNoiseVals :
         LET L == PlantLevel(lvl.L, dL)
         IN  lvl' = [lvl EXCEPT !.L = L,
                                !.L_v201 = ReportedLevel(L, lvl.noise, w),
                                !.logged = TRUE]
    /\ UNCHANGED <<routeVars, lateVars, ctl, pi, clk, runs>>

NextLevel == LevelStep

SpecLevel == LevelInit /\ [][NextLevel]_vars

\* C6 as claimed: with noise on or off, every logged L_v201 lies in [0,100].
C6_LoggedLevelInRange ==
    lvl.logged => (0 <= lvl.L_v201 /\ lvl.L_v201 <= 100 * LevelScale)

----------------------------------------------------------------------------
(* The loop clock of simulate: for (let ti = 0.0; ti <= sim_s; ti += dt).   *)
(* ti, dt and sim_s are doubles.  A double is written here exactly, as an   *)
(* integer count of units of 2^-53 held in three limbs <<l0, l1, l2>> of 24 *)
(* bits, value l0 + l1 * 2^24 + l2 * 2^48.  ti += dt is the exact sum       *)
(* rounded to 53 significant bits, ties to even, as IEEE 754 prescribes.    *)

LimbBase == 16777216

RECURSIVE BitLen(_)
BitLen(n) == IF n = 0 THEN 0 ELSE 1 + BitLen(n \div 2)

RECURSIVE Pow2(_)
Pow2(k) == IF k = 0 THEN 1 ELSE 2 * Pow2(k - 1)

DZero == <<0, 0, 0>>

\* exact sum of two values
LAdd(a, b) ==
    LET c0 == a[1] + b[1]
        c1 == a[2] + b[2] + (c0 \div LimbBase)
        c2 == a[3] + b[3] + (c1 \div LimbBase)
    IN  <<c0 % LimbBase, c1 % LimbBase, c2>>

\* a <= b
LLe(a, b) ==
    \/ a[3] < b[3]
    \/ a[3] = b[3] /\ a[2] < b[2]
    \/ a[3] = b[3] /\ a[2] = b[2] /\ a[1] <= b[1]

\* the nearest double to the exact value s (s below 2^72, so that the bits
\* dropped all lie in the lowest limb)
RoundDouble(s) ==
    LET q == Max(0, BitLen(s[3]) + 48 - 53)
        p == Pow2(q)
        r == s[1] % p
        down == <<s[1] - r, s[2], s[3]>>
        up == LAdd(down, <<p, 0, 0>>)
        odd == (s[1] \div p) % 2 = 1
    IN  IF r = 0 THEN s
        ELSE IF 2 * r > p THEN up
        ELSE IF 2 * r < p THEN down
        ELSE IF odd THEN up ELSE down

\* a + b on doubles
DAdd(a, b) == RoundDouble(LAdd(a, b))

\* scenarios with sim_s = N * dt: 0.5 s, 0.6 s, 1 s over 600 s; 0.9 s over 900 s
ClockScenarios ==
    { [dt |-> <<0, 0, 16>>, sim_s |-> <<0, 0, 19200>>, N |-> 1200],
      [dt |-> <<3355443, 3355443, 19>>, sim_s |-> <<0, 0, 19200>>, N |-> 1000],
      [dt |-> <<0, 0, 32>>, sim_s |-> <<0, 0, 19200>>, N |-> 600],
      [dt |-> <<13421773, 13421772, 28>>, sim_s |-> <<0, 0, 28800>>, N |-> 1000] }

ClockInit ==
    /\ \E sc \in ClockScenarios :
         clk = [dt |-> sc.dt, sim_s |-> sc.sim_s, N |-> sc.N, ti |-> DZero,
                n |-> 0, t0 |-> DZero, last |-> DZero, diffs_ok |-> TRUE,
                done |-> FALSE]
    /\ cfg = Idle /\ pc = "idle" /\ ti = 0 /\ nsamples = 0
    /\ gate = GateNew /\ gate2 = GateNew /\ route_prev = "RECYCLE"
    /\ active_prev = {} /\ row = RowNone /\ route0 = "none"
    /\ stats = Idle /\ obs = Idle
    /\ ctl = Idle /\ pi = Idle /\ lvl = Idle /\ runs = Idle
    /\ suite = Idle /\ fn = Idle

\* one iteration: log.t.push(ti), then ti += dt.  The difference of two
\* successive log.t is dt exactly when the sum before it was not rounded.
ClockStep ==
    /\ ~clk.done
    /\ LLe(clk.ti, clk.sim_s)
    /\ clk' = [clk EXCEPT
                 !.n = clk.n + 1,
                 !.t0 = IF clk.n = 0 THEN clk.ti ELSE clk.t0,
                 !.last = clk.ti,
                 !.diffs_ok = clk.diffs_ok /\
                              (clk.n > 0 => clk.ti = LAdd(clk.last, clk.dt)),
                 !.ti = DAdd(clk.ti, clk.dt)]
    /\ UNCHANGED <<routeVars, lateVars, ctl, pi, lvl, runs>>

\* the loop condition fails
ClockReturn ==
    /\ ~clk.done
    /\ ~LLe(clk.ti, clk.sim_s)
    /\ clk' = [clk EXCEPT !.done = TRUE]
    /\ UNCHANGED <<routeVars, lateVars, ctl, pi, lvl, runs>>

NextClock == ClockStep \/ ClockReturn

SpecClock == ClockInit /\ [][NextClock]_vars

\* C7 as claimed: for sim_s = N*dt the run stops with exactly N+1 samples,
\* t[0] = 0 and t[i+1] - t[i] = dt for all i.
C7_SampleCountAndSpacing ==
    clk.done => (clk.n = clk.N + 1 /\ clk.t0 = DZero /\ clk.diffs_ok)

----------------------------------------------------------------------------
(* Two successive calls of simulate on one scenario.  Each call builds its  *)
(* own plant, gate and controllers (lines 487-544) and returns its log and  *)
(* its event log.  The plant is reduced to the drum level under LIC201,     *)
(* with the other flows at their base values (F_cond_in - F_reflux = 20)    *)
(* and the gate's quality PVs at their base values, inside the ON band.     *)

\* iterations of one call
MaxRunSteps == 4

\* randn() * 0.2 on L_v201, in units of 1/PIScale
RunNoiseVals == {0 - 20, 20}

RunScenarios ==
    [ noise : BOOLEAN,
      sp_Lv201 : {40 * PIScale, 50 * PIScale, 60 * PIScale},
      delay_on_s : {2, 3} ]

\* cfg.LOOP.LIC201 with tiLIC201 = 1 s at dt = 1 s
RunLoopCfg(sc) ==
    [LoopCfg("LIC201", [n |-> 4, d |-> 5]) EXCEPT
        !.dtTi = [n |-> 1, d |-> 1], !.sp = sc.sp_Lv201]

\* what simulate builds before its loop: plant.reset(), gate.reset(),
\* new PI and reset(mv), empty log and event log
RunFresh(sc) ==
    [ L |-> 50 * PIScale,
      pid |-> PIReset(RunLoopCfg(sc), RunLoopCfg(sc).mv_init),
      mv |-> RunLoopCfg(sc).mv_init,
      init_done |-> FALSE,
      g |-> GateNew,
      route_prev |-> "RECYCLE",
      k |-> 0,
      trace |-> <<>>,
      events |-> <<>> ]

\* a simulate that keeps the plant and the controller of the call before
RunNew_StateKept(sc, old) ==
    [RunFresh(sc) EXCEPT !.L = old.L, !.pid = old.pid, !.mv = old.mv,
                         !.init_done = old.init_done]

\* the state a call of simulate starts its loop with; `old` is what the call
\* before left behind, of which simulate reads nothing
RunNew(sc, old) == RunFresh(sc)

\* dL = (F_cond_in - F_reflux - 0.8 * u_draw) * (dt / 200), dt = 1 s
LevelAfter(L, u_draw) ==
    Clamp(L + RoundDiv(20 * PIScale - FMul(u_draw, [n |-> 4, d |-> 5]), 200),
          0, 100 * PIScale)

\* one iteration of the loop of simulate, w the noise sample of the level
RunIter(sc, r, w) ==
    LET c == RunLoopCfg(sc)
        gc == GateCfg(sc.delay_on_s * 2, 0, 0)
        L == LevelAfter(r.L, r.mv)
        pv == IF sc.noise THEN L + w ELSE L
        s0 == IF ~r.init_done THEN PITrack(c, r.pid, r.mv, c.sp, pv) ELSE r.pid
        s1 == PIUpdate(c, s0, c.sp, pv)
        permissive_ok == PERM_L_min * PIScale < pv /\ pv < PERM_L_max * PIScale
        g == GateUpdate(r.g, gc, 2, 95, 740, 60, TRUE, permissive_ok)
        mv_il == ILAct("LIC201", pv, s1.u_prev)
        s2 == IF mv_il # s1.u_prev THEN PITrack(c, s1, mv_il, c.sp, pv) ELSE s1
    IN  [ L |-> L, pid |-> s2, mv |-> mv_il, init_done |-> TRUE, g |-> g,
          route_prev |-> g.route, k |-> r.k + 1,
          trace |-> Append(r.trace, <<r.k, pv, mv_il, g.route>>),
          events |-> IF g.route # r.route_prev
                     THEN Append(r.events, <<r.k, r.route_prev, g.route>>)
                     ELSE r.events ]

RunsInit ==
    /\ \E sc \in RunScenarios :
         runs = [sc |-> sc, call |-> 1, phase |-> "loop",
                 cur |-> RunNew(sc, RunFresh(sc)), first |-> Idle]
    /\ cfg = Idle /\ pc = "idle" /\ ti = 0 /\ nsamples = 0
    /\ gate = GateNew /\ gate2 = GateNew /\ route_prev = "RECYCLE"
    /\ active_prev = {} /\ row = RowNone /\ route0 = "none"
    /\ stats = Idle /\ obs = Idle
    /\ ctl = Idle /\ pi = Idle /\ lvl = Idle /\ clk = Idle
    /\ suite = Idle /\ fn = Idle

RunStep ==
    /\ runs.phase = "loop"
    /\ runs.cur.k < MaxRunSteps
    /\ \E w \in (IF runs.sc.noise THEN RunNoiseVals ELSE {0}) :
         runs' = [runs EXCEPT !.cur = RunIter(runs.sc, runs.cur, w)]
    /\ UNCHANGED <<routeVars, lateVars, ctl, pi, lvl, clk>>

\* the call returns {log, event_log}
RunReturn ==
    /\ runs.phase = "loop"
    /\ runs.cur.k = MaxRunSteps
    /\ runs' = [runs EXCEPT !.phase = IF runs.call = 1 THEN "returned" ELSE "done"]
    /\ UNCHANGED <<routeVars, lateVars, ctl, pi, lvl, clk>>

\* the second call of simulate, on the same scenario
RunAgain ==
    /\ runs.phase = "returned"
    /\ runs' = [runs EXCEPT !.call = 2, !.phase = "loop",
                            !.first = [trace |-> runs.cur.trace,
                                       events |-> runs.cur.events],
                            !.cur = RunNew(runs.sc, runs.cur)]
    /\ UNCHANGED <<routeVars, lateVars, ctl, pi, lvl, clk>>

NextRuns == RunStep \/ RunReturn \/ RunAgain

SpecRuns == RunsInit /\ [][NextRuns]_vars

----------------------------------------------------------------------------
(* run_test_suite: the ten tests, each a whole noise-free simulate of the   *)
(* closed loop at dt = 1 s for sim_s = 3600 s.  Process values, setpoints   *)
(* and valve positions are fixed-point numbers with SuiteScale units for 1; *)
(* rho15 has RhoUnit units for 1.  Time is in seconds.                      *)

SuiteScale == 10000
RhoUnit == 1000000

\* BASE_CONFIG.SIM.sim_s, and the times BASE_CONFIG.TEST and the suite set
SIM_s == 3600
T_feed_dist == 900
T_vapor_dist == 1500
T_cw_degrade == 2100
T_analyzer_fail_suite == 1800
Step_t == 600
\* BASE_CONFIG.GATE delays, in seconds
Delay_on_s == 120
Delay_off_s == 30

\* x * n / d, rounded to the nearest unit
MulQ(x, n, d) == RoundDiv(x * n, d)

\* the tests in the order run_test_suite builds them; cw_degrade_drop and the
\* step's delta are in hundredths and in units of 1
SuiteTest(name, key, delta, d_feed_temp, cw_drop, afail) ==
    [ name |-> name,
      sp_steps |-> IF key = "none" THEN <<>>
                   ELSE <<[t |-> Step_t, key |-> key, delta |-> delta * SuiteScale]>>,
      d_feed_temp |-> d_feed_temp * SuiteScale,
      d_vapor |-> 0,
      cw_degrade_drop |-> cw_drop,
      analyzer_fail_enable |-> afail,
      t_analyzer_fail |-> T_analyzer_fail_suite ]

SuiteTests ==
    << SuiteTest("A0_BASELINE", "none", 0, 0, 0, FALSE),
       SuiteTest("B1_STEP_TIC101", "T_feed_out", 3, 0, 0, FALSE),
       SuiteTest("B2_STEP_TIC102", "T_reb", 3, 0, 0, FALSE),
       SuiteTest("B3_STEP_TIC201", "T_cond_out", 2, 0, 0, FALSE),
       SuiteTest("B4_STEP_FIC101", "F_feed", 5, 0, 0, FALSE),
       SuiteTest("B5_STEP_FIC201", "F_reflux", 5, 0, 0, FALSE),
       SuiteTest("B6_STEP_LIC201", "L_v201", 5, 0, 0, FALSE),
       SuiteTest("C1_DIST_FEED_TEMP", "none", 0, 8, 0, FALSE),
       SuiteTest("C2_DIST_CW_DEGRADE", "none", 0, 0, 25, FALSE),
       SuiteTest("C3_ANALYZER_FAIL", "none", 0, 0, 0, TRUE) >>

\* The tests the model runs, by their place in SuiteTests, in the order of the
\* suite.  Every test is a simulate of its own (new plant, gate, controllers
\* and logs), so a test left out changes nothing in the tests that are run.
SuiteOrder == <<1, 7, 9, 10>>

\* the test that is number k of the run
SuiteTestAt(k) == SuiteTests[SuiteOrder[k]]

\* the controlled variables, by the key simulate gives their setpoint
SpKeys == {"F_feed", "T_feed_out", "T_reb", "T_cond_out", "F_reflux", "L_v201"}

\* BASE_CONFIG.SP
SuiteSP ==
    [k \in SpKeys |->
        SuiteScale * (CASE k = "F_feed" -> 50 [] k = "T_feed_out" -> 120
                        [] k = "T_reb" -> 165 [] k = "T_cond_out" -> 35
                        [] k = "F_reflux" -> 50 [] k = "L_v201" -> 50)]

\* BASE_CONFIG.RAMP times dt: the largest move of a setpoint in one step
SuiteRamp ==
    [k \in SpKeys |->
        CASE k = "F_feed" -> SuiteScale \div 2 [] k = "T_feed_out" -> SuiteScale \div 20
          [] k = "T_reb" -> SuiteScale \div 20 [] k = "T_cond_out" -> SuiteScale \div 20
          [] k = "F_reflux" -> SuiteScale \div 2 [] k = "L_v201" -> SuiteScale \div 5]

\* BASE_CONFIG.MV_INIT, by the key of the loop's setpoint
SuiteMvInit ==
    [k \in SpKeys |->
        SuiteScale * (CASE k = "F_feed" -> 50 [] k = "T_feed_out" -> 35
                        [] k = "T_reb" -> 40 [] k = "T_cond_out" -> 45
                        [] k = "F_reflux" -> 55 [] k = "L_v201" -> 25)]

\* BASE_CONFIG.LOOP with dt = 1: FIC101, TIC101, TIC102, TIC201, FIC201, LIC201
SuiteLoop(k) ==
    LET par == CASE k = "F_feed"     -> <<6, 5, 40, 50, 3, 25, "direct">>
                 [] k = "T_feed_out" -> <<6, 5, 180, 35, 3, 20, "direct">>
                 [] k = "T_reb"      -> <<11, 10, 220, 40, 3, 20, "direct">>
                 [] k = "T_cond_out" -> <<1, 1, 220, 45, 3, 20, "reverse">>
                 [] k = "F_reflux"   -> <<7, 5, 80, 55, 1, 10, "direct">>
                 [] k = "L_v201"     -> <<4, 5, 400, 25, 2, 25, "reverse">>
    IN  [ Kp |-> [n |-> par[1], d |-> par[2]],
          dtTi |-> [n |-> 1, d |-> par[3]],
          bias |-> par[4] * SuiteScale,
          aw |-> [n |-> par[5], d |-> par[6]],
          action |-> par[7],
          out_min |-> 0, out_max |-> 100 * SuiteScale ]

\* setpoint ramp
Ramp(prev_sp, target_sp, maxDelta) ==
    LET delta == target_sp - prev_sp
    IN  IF Abs(delta) <= maxDelta THEN target_sp
        ELSE IF delta > 0 THEN prev_sp + maxDelta ELSE prev_sp - maxDelta

\* step(t, t0, amp)
StepFn(t, t0, amp) == IF t >= t0 THEN amp ELSE 0

\* sp_target after the walk of sp_steps
RECURSIVE SpTarget(_, _, _, _)
SpTarget(steps, i, t, target) ==
    IF i > Len(steps) THEN target
    ELSE LET s == steps[i]
         IN  SpTarget(steps, i + 1, t,
                 IF t >= s.t /\ s.key \in SpKeys
                 THEN [target EXCEPT ![s.key] = @ + s.delta] ELSE target)

----------------------------------------------------------------------------
(* class FOPDTDev and class DistilPlant *)

\* the seven blocks of the plant: K = Kn / Kd, tau and theta in seconds
Fopdt(name) ==
    LET S == SuiteScale
        par == CASE name = "G_Ffeed" -> <<1, 1, 25, 2, 50 * S, 50 * S>>
                 [] name = "G_Tfeed" -> <<3, 5, 140, 10, 120 * S, 35 * S>>
                 [] name = "G_Treb"  -> <<17, 20, 180, 12, 165 * S, 40 * S>>
                 [] name = "G_Fref"  -> <<4, 5, 40, 3, 50 * S, 55 * S>>
                 [] name = "G_Tcond" -> <<0 - 1, 4, 160, 12, 35 * S, 45 * S>>
                 [] name = "G_TT106" -> <<1, 1, 120, 8, 95 * S, 95 * S>>
                 [] name = "G_rho"   -> <<1, 1, 240, 30, (74 * RhoUnit) \div 100,
                                                        (74 * RhoUnit) \div 100>>
    IN  [Kn |-> par[1], Kd |-> par[2], tau |-> par[3], theta |-> par[4],
         y0 |-> par[5], u0 |-> par[6]]

FopdtNames == {"G_Ffeed", "G_Tfeed", "G_Treb", "G_Fref", "G_Tcond", "G_TT106", "G_rho"}

\* FOPDTDev after reset: delay_steps = round(theta / dt) with dt = 1
FopdtReset(p) == [y |-> p.y0, buf |-> [i \in 1..(p.theta + 1) |-> p.u0]]

\* FOPDTDev.update with every output measured from zero, not from (y0, u0)
FopdtUpdate_Absolute(p, g, u, d) ==
    LET buf1 == Append(g.buf, u)
        y_ss == MulQ(Head(buf1), p.Kn, p.Kd) + d
    IN  [y |-> g.y + RoundDiv(y_ss - g.y, p.tau), buf |-> Tail(buf1)]

\* FOPDTDev.update: the block after the call (the call returns its y)
FopdtUpdate(p, g, u, d) ==
    LET buf1 == Append(g.buf, u)
        u_del == Head(buf1)
        y_ss == p.y0 + MulQ(u_del - p.u0, p.Kn, p.Kd) + d
        dy == RoundDiv(y_ss - g.y, p.tau)
    IN  [y |-> g.y + dy, buf |-> Tail(buf1)]

\* DistilPlant after reset
PlantReset ==
    [G |-> [n \in FopdtNames |-> FopdtReset(Fopdt(n))], L |-> 50 * SuiteScale]

\* DistilPlant.update without noise, in three stages; each stage hands the
\* values it computed to the next.  The last one builds the plant after the
\* call and the pv the call returns.
PlantOut(P, F, TT106, TT201, L, rho, analyzer_ok) ==
    [ plant |-> [G |-> [n \in FopdtNames |->
                          CASE n = "G_Ffeed" -> F.Ffeed [] n = "G_Tfeed" -> F.Tfeed
                            [] n = "G_Treb" -> F.Treb [] n = "G_Fref" -> F.Fref
                            [] n = "G_Tcond" -> F.Tcond [] n = "G_TT106" -> TT106
                            [] n = "G_rho" -> rho],
                 L |-> L],
      pv |-> [ F_feed |-> F.Ffeed.y, T_feed_out |-> F.Tfeed.y, T_reb |-> F.Treb.y,
               TT106 |-> TT106.y, TT201 |-> TT201, T_cond_out |-> F.Tcond.y,
               F_reflux |-> F.Fref.y, L_v201 |-> L, rho15 |-> rho.y,
               analyzer_ok |-> analyzer_ok ] ]

\* TT201, the drum level and rho15, from the primary blocks F and from TT106;
\* the factors 0.0009 and 0.0011 of rho_ss are 9 / 100 and 11 / 100 from
\* SuiteScale units to RhoUnit units
PlantSecondary(P, F, TT106, u_draw, analyzer_ok) ==
    PlantOut(P, F, TT106,
        TT106.y + MulQ(F.Treb.y - 165 * SuiteScale, 20, 100),
        Clamp(P.L + RoundDiv(Max(0, 70 * SuiteScale
                                    + MulQ(F.Treb.y - 165 * SuiteScale, 20, 100)
                                    + MulQ(F.Ffeed.y - 50 * SuiteScale, 10, 100))
                             - F.Fref.y - MulQ(u_draw, 8, 10), 200),
              0, 100 * SuiteScale),
        FopdtUpdate(Fopdt("G_rho"), P.G["G_rho"],
            (74 * RhoUnit) \div 100 + MulQ(TT106.y - 95 * SuiteScale, 9, 100)
                                     - MulQ(F.Fref.y - 50 * SuiteScale, 11, 100), 0),
        analyzer_ok)

\* TT106 from the primary blocks F
PlantTop(P, F, u_draw, analyzer_ok) ==
    PlantSecondary(P, F,
        FopdtUpdate(Fopdt("G_TT106"), P.G["G_TT106"],
            95 * SuiteScale + MulQ(F.Treb.y - 165 * SuiteScale, 35, 100)
                            - MulQ(F.Fref.y - 50 * SuiteScale, 20, 100)
                            + MulQ(F.Ffeed.y - 50 * SuiteScale, 5, 100), 0),
        u_draw, analyzer_ok)

\* DistilPlant.update(mv, false); cw is cw_degrade in hundredths
PlantUpdate(P, mv, d_feed_temp, d_vapor_load, cw, analyzer_ok) ==
    PlantTop(P,
        [ Ffeed |-> FopdtUpdate(Fopdt("G_Ffeed"), P.G["G_Ffeed"],
                                Clamp(mv["F_feed"], 0, 100 * SuiteScale), 0),
          Tfeed |-> FopdtUpdate(Fopdt("G_Tfeed"), P.G["G_Tfeed"],
                                Clamp(mv["T_feed_out"], 0, 100 * SuiteScale), d_feed_temp),
          Treb  |-> FopdtUpdate(Fopdt("G_Treb"), P.G["G_Treb"],
                                Clamp(mv["T_reb"], 0, 100 * SuiteScale), d_vapor_load),
          Fref  |-> FopdtUpdate(Fopdt("G_Fref"), P.G["G_Fref"],
                                Clamp(mv["F_reflux"], 0, 100 * SuiteScale), 0),
          Tcond |-> FopdtUpdate(Fopdt("G_Tcond"), P.G["G_Tcond"],
                                MulQ(Clamp(mv["T_cond_out"], 0, 100 * SuiteScale), cw, 100), 0) ],
        Clamp(mv["L_v201"], 0, 100 * SuiteScale), analyzer_ok)

----------------------------------------------------------------------------
(* simulate inside run_test_suite *)

\* the interlock conditions on process values with s units for 1
ILCondAt(name, pv, s) ==
    CASE name = "IL-01" -> pv.T_feed_out >= T_feed_HH * s
      [] name = "IL-02" -> pv.T_reb >= T_reb_HH * s
      [] name = "IL-03" -> pv.T_cond_out >= T_cond_out_HH * s
      [] name = "IL-04" -> pv.L_v201 >= L_v201_HH * s
      [] name = "IL-05" -> pv.L_v201 <= L_v201_LL * s
      [] name = "IL-06" -> ~pv.analyzer_ok

\* the valve positions after the walk of the interlock table
SuiteILAct(active, mv) ==
    LET S == SuiteScale
        m1 == IF "IL-01" \in active THEN [mv EXCEPT !["T_feed_out"] = 0] ELSE mv
        m2 == IF "IL-02" \in active THEN [m1 EXCEPT !["T_reb"] = 0] ELSE m1
        m4 == IF "IL-04" \in active
              THEN [m2 EXCEPT !["L_v201"] = JsMax(@, U_draw_force_high * S)] ELSE m2
    IN  IF "IL-05" \in active
        THEN [m4 EXCEPT !["L_v201"] = JsMin(@, U_draw_force_low * S)] ELSE m4

\* BASE_CONFIG.GATE in the units of the suite
SuiteGateCfg ==
    LET g == GateCfg(Delay_on_s, Delay_off_s, 0)
        S == SuiteScale
        R == RhoUnit \div 1000
    IN  [ TT106_on_low   |-> g.TT106_on_low * S,
          TT106_on_high  |-> g.TT106_on_high * S,
          rho15_on_low   |-> g.rho15_on_low * R,
          rho15_on_high  |-> g.rho15_on_high * R,
          dTsub_min      |-> g.dTsub_min * S,
          TT106_off_low  |-> g.TT106_off_low * S,
          TT106_off_high |-> g.TT106_off_high * S,
          rho15_off_low  |-> g.rho15_off_low * R,
          rho15_off_high |-> g.rho15_off_high * R,
          dTsub_min_off  |-> g.dTsub_min_off * S,
          delay_on_s     |-> g.delay_on_s,
          delay_off_s    |-> g.delay_off_s,
          perm_L_min     |-> g.perm_L_min * S,
          perm_L_max     |-> g.perm_L_max * S ]

\* what the suite has not logged yet
SuiteLogNone ==
    [ n |-> 0, t |-> 0 - 1, route |-> "none", switches |-> 0, product_n |-> 0,
      first_product_t |-> 0 - 1,
      abs_err |-> [k \in SpKeys |-> 0], max_abs_err |-> [k \in SpKeys |-> 0] ]

SuiteEvNone ==
    [ on |-> [n \in ILNames |-> 0], off |-> [n \in ILNames |-> 0],
      on_t |-> [n \in ILNames |-> 0 - 1], gate_switch |-> 0 ]

\* simulate up to its loop, for test number k
SuiteStart(k, results) ==
    [ slice |-> "suite", pc |-> "loop", k |-> k, ti |-> 0,
      plant |-> PlantReset,
      C |-> [key \in SpKeys |-> PIReset(SuiteLoop(key), SuiteMvInit[key])],
      mv |-> SuiteMvInit, sp |-> SuiteSP,
      gate |-> GateNew, route_prev |-> "RECYCLE", active_prev |-> {},
      init_done |-> FALSE,
      log |-> SuiteLogNone, ev |-> SuiteEvNone,
      results |-> results ]

\* One iteration of the loop of simulate, in stages; each stage hands the
\* values it computed to the next.  The last one: the log row, the events,
\* and the state the iteration leaves.
IterLog(s, sp, pu, C, mv, g, active_now, route) ==
    [ s EXCEPT
        !.ti = s.ti + 1,
        !.plant = pu.plant, !.C = C, !.mv = mv, !.sp = sp,
        !.gate = g, !.route_prev = route, !.active_prev = active_now,
        !.init_done = TRUE,
        !.log = [ n |-> s.log.n + 1, t |-> s.ti, route |-> route,
                  switches |-> s.log.switches
                      + (IF s.log.n > 0 /\ route # s.log.route THEN 1 ELSE 0),
                  product_n |-> s.log.product_n + (IF route = "PRODUCT" THEN 1 ELSE 0),
                  first_product_t |-> IF route = "PRODUCT" /\ s.log.first_product_t < 0
                                      THEN s.ti ELSE s.log.first_product_t,
                  abs_err |-> [k \in SpKeys |->
                                 s.log.abs_err[k] + Abs(sp[k] - pu.pv[k])],
                  max_abs_err |-> [k \in SpKeys |->
                                 Max(s.log.max_abs_err[k], Abs(sp[k] - pu.pv[k]))] ],
        !.ev = [ on |-> [n \in ILNames |-> s.ev.on[n]
                          + (IF n \in active_now \ s.active_prev THEN 1 ELSE 0)],
                 off |-> [n \in ILNames |-> s.ev.off[n]
                          + (IF n \in s.active_prev \ active_now THEN 1 ELSE 0)],
                 on_t |-> [n \in ILNames |->
                             IF n \in active_now \ s.active_prev THEN s.ti
                             ELSE s.ev.on_t[n]],
                 gate_switch |-> s.ev.gate_switch
                          + (IF route # s.route_prev THEN 1 ELSE 0) ] ]

\* the controllers track the valves an interlock moved (a move of more than
\* eps = 1e-6 is any move here), and the route is the forced one, if any
IterTrack(s, sp, pu, C1, mv, g, active_now) ==
    IterLog(s, sp, pu,
        [k \in SpKeys |->
            IF mv[k] # C1[k].u_prev
            THEN PITrack(SuiteLoop(k), C1[k], mv[k], sp[k], pu.pv[k]) ELSE C1[k]],
        mv, g, active_now, FinalRoute(g.route, ForceRoute(active_now)))

\* the gate, and the walk of the interlock table
IterGate(s, sp, pu, C1, analyzer_ok, active_now) ==
    IterTrack(s, sp, pu, C1,
        SuiteILAct(active_now, [k \in SpKeys |-> C1[k].u_prev]),
        GateUpdate(s.gate, SuiteGateCfg, 1, pu.pv.TT106, pu.pv.rho15,
                   pu.pv.TT201 - pu.pv.T_cond_out, analyzer_ok,
                   SuiteGateCfg.perm_L_min < pu.pv.L_v201
                       /\ pu.pv.L_v201 < SuiteGateCfg.perm_L_max),
        active_now)

\* the six controllers: update, after track in the first iteration
IterControl(s, sp, pu, C0, analyzer_ok) ==
    IterGate(s, sp, pu,
        [k \in SpKeys |-> PIUpdate(SuiteLoop(k), C0[k], sp[k], pu.pv[k])],
        analyzer_ok, {n \in ILNames : ILCondAt(n, pu.pv, SuiteScale)})

IterPlant(s, sp, pu, analyzer_ok) ==
    IterControl(s, sp, pu,
        IF s.init_done THEN s.C
        ELSE [k \in SpKeys |-> PITrack(SuiteLoop(k), s.C[k], s.mv[k], sp[k], pu.pv[k])],
        analyzer_ok)

\* the disturbance schedule, the setpoint ramps, plant.update
IterTest(s, T, target) ==
    IterPlant(s,
        [k \in SpKeys |-> Ramp(s.sp[k], target[k], SuiteRamp[k])],
        PlantUpdate(s.plant, s.mv, StepFn(s.ti, T_feed_dist, T.d_feed_temp),
                    StepFn(s.ti, T_vapor_dist, T.d_vapor),
                    Clamp(100 - StepFn(s.ti, T_cw_degrade, T.cw_degrade_drop), 0, 100),
                    AnalyzerOk(T, s.ti)),
        AnalyzerOk(T, s.ti))

\* one iteration of the loop of simulate
SuiteIter(s) ==
    IterTest(s, SuiteTestAt(s.k), SpTarget(SuiteTestAt(s.k).sp_steps, 1, s.ti, SuiteSP))

\* what run_test_suite keeps of a finished test
SuiteResult(s) ==
    [ name |-> SuiteTestAt(s.k).name, n |-> s.log.n,
      switches |-> s.log.switches, product_n |-> s.log.product_n,
      abs_err |-> s.log.abs_err ]

SuiteInit ==
    /\ cfg = Idle /\ pc = "idle" /\ ti = 0 /\ nsamples = 0
    /\ gate = GateNew /\ gate2 = GateNew
    /\ route_prev = "RECYCLE" /\ active_prev = {}
    /\ row = RowNone /\ route0 = "none"
    /\ stats = Idle /\ obs = Idle
    /\ ctl = Idle /\ pi = Idle /\ lvl = Idle /\ clk = Idle /\ runs = Idle
    /\ suite = SuiteStart(1, <<>>) /\ fn = Idle

SuiteStep ==
    /\ suite.pc = "loop"
    /\ suite.ti <= SIM_s
    /\ suite' = SuiteIter(suite)
    /\ UNCHANGED <<routeVars, ctl, pi, lvl, clk, runs, fn>>

\* simulate returns and the next test starts
SuiteNextTest ==
    /\ suite.pc = "loop"
    /\ suite.ti > SIM_s
    /\ suite.k < Len(SuiteOrder)
    /\ suite' = SuiteStart(suite.k + 1, Append(suite.results, SuiteResult(suite)))
    /\ UNCHANGED <<routeVars, ctl, pi, lvl, clk, runs, fn>>

\* the last simulate returns and run_test_suite returns its results; the
\* state of the last simulate stays visible
SuiteReturn ==
    /\ suite.pc = "loop"
    /\ suite.ti > SIM_s
    /\ suite.k = Len(SuiteOrder)
    /\ suite' = [suite EXCEPT !.pc = "done",
                              !.results = Append(@, SuiteResult(suite))]
    /\ UNCHANGED <<routeVars, ctl, pi, lvl, clk, runs, fn>>

NextSuite == SuiteStep \/ SuiteNextTest \/ SuiteReturn

SpecSuite == SuiteInit /\ [][NextSuite]_vars

----------------------------------------------------------------------------
(* Claims on the suite *)

\* the test whose simulate is running, or has just run its last step
SuiteName == SuiteTestAt(suite.k).name

\* simulate has logged every sample of the test
SuiteLogFull == suite.ti > SIM_s

\* the result run_test_suite kept for a test
SuiteResultOf(name) ==
    LET i == CHOOSE j \in 1..Len(suite.results) : suite.results[j].name = name
    IN  suite.results[i]

\* C11: in the noise-free baseline every PV is at its setpoint in every sample,
\* so the error every loop's IAE sums is 0; the logged route is PRODUCT
\* exactly from the sample that ends delay_on_s seconds of on_ok, up to the
\* last sample; and the route changes at most twice.
C11_BaselineHolds ==
    (SuiteName = "A0_BASELINE" /\ suite.log.n > 0) =>
        /\ \A k \in SpKeys : suite.log.max_abs_err[k] = 0 /\ suite.log.abs_err[k] = 0
        /\ suite.log.route = (IF suite.log.t + 1 >= Delay_on_s THEN "PRODUCT" ELSE "RECYCLE")
        /\ suite.log.switches <= 2

\* C11 witness: the baseline has run all its 3601 samples, went to PRODUCT
\* once and ended there
C11_Witness ==
    /\ SuiteName = "A0_BASELINE" /\ SuiteLogFull
    /\ suite.log.n = SIM_s + 1 /\ suite.log.t = SIM_s
    /\ suite.log.route = "PRODUCT" /\ suite.log.switches = 1
    /\ suite.log.first_product_t = Delay_on_s - 1

\* C13: with the analyzer failing at t = 1800 every sample from 1800 on is
\* RECYCLE, one INTERLOCK_ON of IL-06 is logged, at time 1800, and no
\* INTERLOCK_OFF of IL-06.
C13_AnalyzerFailAt1800 ==
    (SuiteName = "C3_ANALYZER_FAIL" /\ suite.log.n > 0) =>
        /\ suite.log.t >= T_analyzer_fail_suite => suite.log.route = "RECYCLE"
        /\ suite.ev.on["IL-06"] = (IF suite.log.t >= T_analyzer_fail_suite THEN 1 ELSE 0)
        /\ suite.ev.on["IL-06"] = 1 => suite.ev.on_t["IL-06"] = T_analyzer_fail_suite
        /\ suite.ev.off["IL-06"] = 0

\* C13 witness: the test has run to its end; the route was PRODUCT before the
\* failure (two changes of route) and the one event was logged
C13_Witness ==
    /\ SuiteName = "C3_ANALYZER_FAIL" /\ SuiteLogFull
    /\ suite.log.n = SIM_s + 1 /\ suite.log.switches = 2
    /\ suite.log.route = "RECYCLE"
    /\ suite.ev.on["IL-06"] = 1 /\ suite.ev.on_t["IL-06"] = T_analyzer_fail_suite

\* C14: when the suite returns, the switch count of C2_DIST_CW_DEGRADE is
\* greater than the switch count of A0_BASELINE.
C14_CwDegradeMoreSwitches ==
    suite.pc = "done" =>
        SuiteResultOf("C2_DIST_CW_DEGRADE").switches > SuiteResultOf("A0_BASELINE").switches

----------------------------------------------------------------------------
(* LIC201.update as a function of the measured level: one controller state  *)
(* and one setpoint, and the call made for two levels pv_lo <= pv_hi.       *)

\* the integrator, from wound down to wound up
LicIVals == {0 - 50 * PIScale, 0 - PIScale, 0, PIScale, 50 * PIScale}
LicSpVals == {45 * PIScale, 50 * PIScale, 55 * PIScale}
\* L_v201 from empty to full, with the values next to the setpoint 50
LicPvVals == {0, 30 * PIScale, 50 * PIScale - 1, 50 * PIScale, 50 * PIScale + 1,
              70 * PIScale, 100 * PIScale}

LicInit ==
    /\ \E Kp \in KpVals("LIC201") : \E I \in LicIVals : \E sp \in LicSpVals :
       \E lo \in LicPvVals : \E hi \in LicPvVals : \E u \in {25 * PIScale, 100 * PIScale} :
         /\ lo <= hi
         /\ fn = [slice |-> "lic", pc |-> "call", c |-> LoopCfg("LIC201", Kp),
                  s |-> [I |-> I, u_prev |-> u], sp |-> sp,
                  pv_lo |-> lo, pv_hi |-> hi, u_lo |-> 0, u_hi |-> 0]
    /\ cfg = Idle /\ pc = "idle" /\ ti = 0 /\ nsamples = 0
    /\ gate = GateNew /\ gate2 = GateNew /\ route_prev = "RECYCLE"
    /\ active_prev = {} /\ row = RowNone /\ route0 = "none"
    /\ stats = Idle /\ obs = Idle
    /\ ctl = Idle /\ pi = Idle /\ lvl = Idle /\ clk = Idle /\ runs = Idle
    /\ suite = Idle

\* mv.u_draw = C.LIC201.update(sp.L_v201, pv.L_v201), for each of the two levels
LicUpdate ==
    /\ fn.pc = "call"
    /\ fn' = [fn EXCEPT !.pc = "done",
                        !.u_lo = PIUpdate(fn.c, fn.s, fn.sp, fn.pv_lo).u_prev,
                        !.u_hi = PIUpdate(fn.c, fn.s, fn.sp, fn.pv_hi).u_prev]
    /\ UNCHANGED <<routeVars, ctl, pi, lvl, clk, runs, suite>>

NextLic == LicUpdate

SpecLic == LicInit /\ [][NextLic]_vars

\* C15: for one controller state and one setpoint, the u_draw that
\* LIC201.update returns for the lower of two measured levels is no greater
\* than the u_draw it returns for the higher one.
C15_DrawNonDecreasingInLevel ==
    fn.pc = "done" =>
        /\ IsFinite(fn.u_lo) /\ IsFinite(fn.u_hi)
        /\ fn.u_lo <= fn.u_hi

\* C15 witness: a level below the setpoint and one above it, and a draw that
\* is strictly lower for the first
C15_Witness ==
    /\ fn.pc = "done"
    /\ fn.pv_lo < fn.sp /\ fn.sp < fn.pv_hi
    /\ fn.u_lo < fn.u_hi /\ fn.u_lo < fn.c.bias /\ fn.c.bias < fn.u_hi

----------------------------------------------------------------------------
(* onmessage, single mode: the loop that thins the log into chartData.      *)
(* dt is counted in half seconds; for the dt and sim_s drawn here every ti  *)
(* is an exact double, so log.t has floor(sim_s / dt) + 1 entries.          *)

MaxPts == 700

\* sim_s inside [600, 7200], and dt inside [0.5, 5] in half seconds
ChartSimS == {600, 699, 1000, 3600, 7200}
ChartDt2 == {1, 2, 10}

\* log.t.length for a run
LogLength(sim_s, dt2) == (2 * sim_s) \div dt2 + 1

\* Math.round of a time given in half seconds
RoundHalves(t2) == (t2 + 1) \div 2

ChartInit ==
    /\ \E sim_s \in ChartSimS : \E dt2 \in ChartDt2 :
         LET n == LogLength(sim_s, dt2)
         IN  fn = [slice |-> "chart", pc |-> "loop", sim_s |-> sim_s, dt2 |-> dt2,
                   n |-> n, factor |-> Max(1, n \div MaxPts),
                   i |-> 0, len |-> 0, first |-> [i |-> 0 - 1, t |-> 0 - 1]]
    /\ cfg = Idle /\ pc = "idle" /\ ti = 0 /\ nsamples = 0
    /\ gate = GateNew /\ gate2 = GateNew /\ route_prev = "RECYCLE"
    /\ active_prev = {} /\ row = RowNone /\ route0 = "none"
    /\ stats = Idle /\ obs = Idle
    /\ ctl = Idle /\ pi = Idle /\ lvl = Idle /\ clk = Idle /\ runs = Idle
    /\ suite = Idle

\* one pass of the for-loop: chartData.push of sample i
ChartPush ==
    /\ fn.pc = "loop"
    /\ fn.i < fn.n
    /\ fn' = [fn EXCEPT !.len = @ + 1,
                        !.i = @ + fn.factor,
                        !.first = IF fn.len = 0
                                  THEN [i |-> fn.i, t |-> RoundHalves(fn.i * fn.dt2)]
                                  ELSE @]
    /\ UNCHANGED <<routeVars, ctl, pi, lvl, clk, runs, suite>>

\* the loop ends and the response is posted
ChartPost ==
    /\ fn.pc = "loop"
    /\ fn.i >= fn.n
    /\ fn' = [fn EXCEPT !.pc = "posted"]
    /\ UNCHANGED <<routeVars, ctl, pi, lvl, clk, runs, suite>>

NextChart == ChartPush \/ ChartPost

SpecChart == ChartInit /\ [][NextChart]_vars

\* C17: chartData never holds more than 700 records, and its first record is
\* the sample of index 0, at t = 0.
C17_ChartAtMostMaxPts ==
    /\ fn.len <= MaxPts
    /\ fn.len > 0 => fn.first = [i |-> 0, t |-> 0]

----------------------------------------------------------------------------
(* settling_time on short traces.  Values have SettleScale units for 1, so  *)
(* 1e-6 is less than one unit; band = 0.02 = 1 / SettleBandInv; t[i] = i    *)
(* seconds (dt = 1), and hold_s is a whole number of seconds.               *)

SettleScale == 1000
SettleBandInv == 50
\* longest trace, in samples
MaxTrace == 3

\* |v - spFinal| > tol, with tol = max(|spFinal| * band, 1e-6)
OutsideBand(v, spFinal) ==
    IF spFinal = 0 THEN Abs(v) > 0
    ELSE SettleBandInv * Abs(v - spFinal) > Abs(spFinal)

\* spStepAbs <= spStepEps, with spStepEps = max(1e-6, 0.001 * max(1, |sp0|))
NoSpStep(sp0, spFinal) ==
    1000 * Abs(spFinal - sp0) <= Max(SettleScale, Abs(sp0))

\* the first index (from 0) at or after i whose pv is outside the band; -1 if none
RECURSIVE FirstOutside(_, _, _)
FirstOutside(pv, spFinal, i) ==
    IF i >= Len(pv) THEN 0 - 1
    ELSE IF OutsideBand(pv[i + 1], spFinal) THEN i
    ELSE FirstOutside(pv, spFinal, i + 1)

\* the search of step 4, from index i: the time of the first window of hold_n
\* samples inside the band, or null
RECURSIVE SettleFrom(_, _, _, _)
SettleFrom(pv, spFinal, hold_n, i) ==
    IF i >= Len(pv) \/ i + hold_n > Len(pv) THEN [null |-> TRUE, t |-> 0]
    ELSE IF \A k \in i..(i + hold_n - 1) : ~OutsideBand(pv[k + 1], spFinal)
    THEN [null |-> FALSE, t |-> i]
    ELSE SettleFrom(pv, spFinal, hold_n, i + 1)

\* settling_time without its test of the setpoint step
SettlingTime_NoStepTest(sp, pv, hold_s) ==
    IF Len(sp) = 0 \/ Len(pv) = 0 THEN [null |-> TRUE, t |-> 0]
    ELSE LET spFinal == sp[Len(sp)]
             firstOutside == FirstOutside(pv, spFinal, 0)
         IN  IF firstOutside < 0 THEN [null |-> TRUE, t |-> 0]
             ELSE SettleFrom(pv, spFinal, Max(1, hold_s), firstOutside)

\* settling_time(t, sp, pv, band, hold_s) for traces of one length
SettlingTime(sp, pv, hold_s) ==
    IF Len(sp) = 0 \/ Len(pv) = 0 THEN [null |-> TRUE, t |-> 0]
    ELSE LET sp0 == sp[1]
             spFinal == sp[Len(sp)]
             firstOutside == FirstOutside(pv, spFinal, 0)
         IN  IF NoSpStep(sp0, spFinal) THEN [null |-> TRUE, t |-> 0]
             ELSE IF firstOutside < 0 THEN [null |-> TRUE, t |-> 0]
             ELSE SettleFrom(pv, spFinal, Max(1, hold_s), firstOutside)

\* setpoints: 0, 1, 50, and 50 plus a step of exactly 0.1 %, just more, and 10 %
SettleSpVals == {0, SettleScale, 50 * SettleScale, 50 * SettleScale + 50,
                 50 * SettleScale + 51, 55 * SettleScale}
\* process values: far off, at 50, at 55
SettlePvVals == {0, 50 * SettleScale, 55 * SettleScale}

\* the traces: sp keeps its first value up to some sample and its last after
SettleTraces ==
    UNION { { [sp |-> [i \in 1..n |-> IF i <= k THEN a ELSE b], pv |-> pv] :
                a \in SettleSpVals, b \in SettleSpVals, k \in 1..n,
                pv \in [1..n -> SettlePvVals] } : n \in 1..MaxTrace }
    \cup {[sp |-> <<>>, pv |-> <<>>]}

SettleInit ==
    /\ \E tr \in SettleTraces : \E hold_s \in {1, 2} :
         fn = [slice |-> "settle", pc |-> "call", sp |-> tr.sp, pv |-> tr.pv,
               hold_s |-> hold_s, st |-> [null |-> TRUE, t |-> 0]]
    /\ cfg = Idle /\ pc = "idle" /\ ti = 0 /\ nsamples = 0
    /\ gate = GateNew /\ gate2 = GateNew /\ route_prev = "RECYCLE"
    /\ active_prev = {} /\ row = RowNone /\ route0 = "none"
    /\ stats = Idle /\ obs = Idle
    /\ ctl = Idle /\ pi = Idle /\ lvl = Idle /\ clk = Idle /\ runs = Idle
    /\ suite = Idle

\* summarize_metrics calls settling_time for the loop
SettleCall ==
    /\ fn.pc = "call"
    /\ fn' = [fn EXCEPT !.pc = "done", !.st = SettlingTime(fn.sp, fn.pv, fn.hold_s)]
    /\ UNCHANGED <<routeVars, ctl, pi, lvl, clk, runs, suite>>

NextSettle == SettleCall

SpecSettle == SettleInit /\ [][NextSettle]_vars

\* C19: when the last setpoint of a trace differs from the first by no more
\* than max(1e-6, 0.001 * max(1, |sp[0]|)), settling_time returns null.
C19_NoStepNoSettlingTime ==
    (/\ fn.pc = "done" /\ Len(fn.sp) > 0
     /\ 1000 * Abs(fn.sp[Len(fn.sp)] - fn.sp[1]) <= Max(SettleScale, Abs(fn.sp[1])))
        => fn.st.null

\* C19 witness: a setpoint that does not change, a PV that starts outside the
\* band and then stays inside it for the hold time, and null returned
C19_Witness ==
    /\ fn.pc = "done" /\ Len(fn.sp) = MaxTrace
    /\ fn.sp[Len(fn.sp)] = fn.sp[1] /\ fn.sp[1] = 50 * SettleScale
    /\ fn.pv[1] = 0 /\ fn.pv[2] = 50 * SettleScale /\ fn.pv[3] = 50 * SettleScale
    /\ fn.st.null

----------------------------------------------------------------------------
(* gate_stats on short route arrays *)

\* longest route array
MaxRoute == 6

\* the number of PRODUCT entries: r.reduce((a, b) => a + b, 0)
RECURSIVE ProductCount(_)
ProductCount(route) ==
    IF route = <<>> THEN 0
    ELSE (IF Head(route) = "PRODUCT" THEN 1 ELSE 0) + ProductCount(Tail(route))

SwitchCount(route) ==
    Cardinality({i \in 2..Len(route) : route[i] # route[i - 1]})

\* gate_stats dividing by the last index of the array
GateStats_OverLastIndex(route) ==
    [ productPct |-> [num |-> 100 * ProductCount(route), den |-> Max(1, Len(route) - 1)],
      switches |-> SwitchCount(route) ]

\* gate_stats: productPct is the quotient num / den, frac * 100 with
\* frac = sum / Math.max(1, r.length)
GateStats(route) ==
    [ productPct |-> [num |-> 100 * ProductCount(route), den |-> Max(1, Len(route))],
      switches |-> SwitchCount(route) ]

RouteArrays == UNION {[1..n -> {"PRODUCT", "RECYCLE"}] : n \in 0..MaxRoute}

StatsInit ==
    /\ \E route \in RouteArrays :
         fn = [slice |-> "stats", pc |-> "call", route |-> route,
               gate |-> [productPct |-> [num |-> 0, den |-> 1], switches |-> 0]]
    /\ cfg = Idle /\ pc = "idle" /\ ti = 0 /\ nsamples = 0
    /\ gate = GateNew /\ gate2 = GateNew /\ route_prev = "RECYCLE"
    /\ active_prev = {} /\ row = RowNone /\ route0 = "none"
    /\ stats = Idle /\ obs = Idle
    /\ ctl = Idle /\ pi = Idle /\ lvl = Idle /\ clk = Idle /\ runs = Idle
    /\ suite = Idle

\* const gate = gate_stats(log.route)
StatsCall ==
    /\ fn.pc = "call"
    /\ fn' = [fn EXCEPT !.pc = "done", !.gate = GateStats(fn.route)]
    /\ UNCHANGED <<routeVars, ctl, pi, lvl, clk, runs, suite>>

NextStats == StatsCall

SpecStats == StatsInit /\ [][NextStats]_vars

\* the number of i > 0 (indices from 0) with route[i] # route[i-1], counted
\* one pair after the other
RECURSIVE Changes(_)
Changes(route) ==
    IF Len(route) < 2 THEN 0
    ELSE (IF route[1] # route[2] THEN 1 ELSE 0) + Changes(Tail(route))

\* C20: for a trace with indices 0..N, productPct is 100 times the number of
\* PRODUCT entries divided by N, and switches is the number of i > 0 with
\* route[i] # route[i-1].
C20_PctOverN ==
    (fn.pc = "done" /\ Len(fn.route) >= 2) =>
        /\ fn.gate.productPct.num * (Len(fn.route) - 1)
             = 100 * ProductCount(fn.route) * fn.gate.productPct.den
        /\ fn.gate.switches = Changes(fn.route)

\* C20 amended: for a trace with indices 0..N, productPct is 100 times the
\* number of PRODUCT entries divided by N + 1, the number of entries, and
\* switches is the number of i > 0 with route[i] # route[i-1].
C20_PctOverLength ==
    (fn.pc = "done" /\ Len(fn.route) >= 1) =>
        /\ fn.gate.productPct.num * Len(fn.route)
             = 100 * ProductCount(fn.route) * fn.gate.productPct.den
        /\ fn.gate.switches = Changes(fn.route)

\* C20 witness: a trace of several entries, some of them PRODUCT, with a
\* change of route
C20_Witness ==
    /\ fn.pc = "done" /\ Len(fn.route) = MaxRoute
    /\ ProductCount(fn.route) = 2 /\ fn.gate.switches = 3
    /\ fn.gate.productPct = [num |-> 200, den |-> MaxRoute]

----------------------------------------------------------------------------
(* The worker's message handler: self.onmessage, build_cfg_from_params,     *)
(* numOr and boolOr.  A request field holds a JavaScript value as the       *)
(* structured clone delivers it; numbers have CfgScale units for 1.         *)

CfgScale == 1000

\* JavaScript values: undefined (an absent field), null, booleans, strings,
\* numbers, a plain object, and an object whose own valueOf and toString are
\* not functions, such as {valueOf: 0, toString: 0}
JsUndefined == [k |-> "undefined"]
JsNull == [k |-> "null"]
JsBool(b) == [k |-> "boolean", v |-> b]
JsStr(s) == [k |-> "string", v |-> s]
JsNum(x) == [k |-> "number", v |-> x]
JsPlainObject == [k |-> "object", v |-> "plain"]
JsNoPrimitive == [k |-> "object", v |-> "no primitive"]

\* the result of a call that threw a TypeError
Threw == [k |-> "throw"]

\* Number(x): JsNum of the number, or Threw when ToPrimitive finds no method
\* to call
ToNumber(x) ==
    CASE x.k = "undefined" -> JsNum(NaN)
      [] x.k = "null" -> JsNum(0)
      [] x.k = "boolean" -> JsNum(IF x.v THEN CfgScale ELSE 0)
      [] x.k = "number" -> x
      [] x.k = "string" ->
            (CASE x.v = "" -> JsNum(0)
               [] x.v = " " -> JsNum(0)
               [] x.v = "900" -> JsNum(900 * CfgScale)
               [] x.v = "1e3" -> JsNum(1000 * CfgScale)
               [] x.v = "Infinity" -> JsNum(PInf)
               [] OTHER -> JsNum(NaN))
      [] x.k = "object" -> IF x.v = "plain" THEN JsNum(NaN) ELSE Threw

\* numOr(x, fallback): JsNum of the result, or Threw
NumOr(x, fallback) ==
    IF x.k \in {"null", "undefined"} \/ (x.k = "string" /\ x.v = "") THEN JsNum(fallback)
    ELSE LET n == ToNumber(x)
         IN  IF n.k = "throw" THEN Threw
             ELSE IF IsFinite(n.v) THEN n ELSE JsNum(fallback)

\* boolOr(x, fallback); trim and toLowerCase act on the strings drawn
BoolOr(x, fallback) ==
    IF x.k = "boolean" THEN x.v
    ELSE IF x.k = "string" /\ x.v \in {"true", " TRUE "} THEN TRUE
    ELSE IF x.k = "string" /\ x.v \in {"false"} THEN FALSE
    ELSE fallback

\* the numeric fields of a request, and the default each one falls back to
\* (BASE_CONFIG), in CfgScale units
NumFields ==
    {"sim_s", "dt", "sp_Ffeed", "sp_Tfeed", "sp_Treb", "sp_Tcond", "sp_Freflux",
     "sp_Lv201", "kpFIC101", "tiFIC101", "kpTIC101", "tiTIC101", "kpTIC102",
     "tiTIC102", "kpTIC201", "tiTIC201", "kpFIC201", "tiFIC201", "kpLIC201",
     "tiLIC201", "g_tt_low", "g_tt_high", "g_rho_low", "g_rho_high", "g_dTsub",
     "g_delay_on", "g_delay_off"}

FieldDefault(f) ==
    CASE f = "sim_s" -> 3600 * CfgScale [] f = "dt" -> CfgScale
      [] f = "sp_Ffeed" -> 50 * CfgScale [] f = "sp_Tfeed" -> 120 * CfgScale
      [] f = "sp_Treb" -> 165 * CfgScale [] f = "sp_Tcond" -> 35 * CfgScale
      [] f = "sp_Freflux" -> 50 * CfgScale [] f = "sp_Lv201" -> 50 * CfgScale
      [] f = "kpFIC101" -> (12 * CfgScale) \div 10 [] f = "tiFIC101" -> 40 * CfgScale
      [] f = "kpTIC101" -> (12 * CfgScale) \div 10 [] f = "tiTIC101" -> 180 * CfgScale
      [] f = "kpTIC102" -> (11 * CfgScale) \div 10 [] f = "tiTIC102" -> 220 * CfgScale
      [] f = "kpTIC201" -> CfgScale [] f = "tiTIC201" -> 220 * CfgScale
      [] f = "kpFIC201" -> (14 * CfgScale) \div 10 [] f = "tiFIC201" -> 80 * CfgScale
      [] f = "kpLIC201" -> (8 * CfgScale) \div 10 [] f = "tiLIC201" -> 400 * CfgScale
      [] f = "g_tt_low" -> TT106_on_low * CfgScale
      [] f = "g_tt_high" -> TT106_on_high * CfgScale
      [] f = "g_rho_low" -> RHO_on_low * (CfgScale \div 1000)
      [] f = "g_rho_high" -> RHO_on_high * (CfgScale \div 1000)
      [] f = "g_dTsub" -> DTSUB_min * CfgScale
      [] f = "g_delay_on" -> Delay_on_s * CfgScale
      [] f = "g_delay_off" -> Delay_off_s * CfgScale

KpFields == {"kpFIC101", "kpTIC101", "kpTIC102", "kpTIC201", "kpFIC201", "kpLIC201"}
TiFields == {"tiFIC101", "tiTIC101", "tiTIC102", "tiTIC201", "tiFIC201", "tiLIC201"}

\* the value build_cfg_from_params assigns for one field, before the gate's
\* limits are put in order: numOr, then the field's clamp.  The least Ti,
\* 1e-6, is below the resolution and is one unit here.
Sanitized(f, x) ==
    LET n == NumOr(x, FieldDefault(f))
    IN  IF n.k = "throw" THEN Threw
        ELSE IF f = "sim_s" THEN JsNum(Clamp(n.v, 600 * CfgScale, 7200 * CfgScale))
        ELSE IF f = "dt" THEN JsNum(Clamp(n.v, CfgScale \div 2, 5 * CfgScale))
        ELSE IF f \in KpFields \/ f \in {"g_dTsub", "g_delay_on", "g_delay_off"}
        THEN JsNum(JsMax(0, n.v))
        ELSE IF f \in TiFields THEN JsNum(JsMax(1, n.v))
        ELSE n

\* build_cfg_from_params without the two swaps: the limits widened as given
GateOrdered_NoSwap(san, p) ==
    LET tt_lo == san["g_tt_low"]
        tt_hi == san["g_tt_high"]
        rho_lo == san["g_rho_low"]
        rho_hi == san["g_rho_high"]
    IN  [ k |-> "cfg",
          san |-> san,
          SIM |-> [sim_s |-> san["sim_s"], dt |-> san["dt"],
                   noise |-> BoolOr(p["noise"], TRUE)],
          GATE |-> [ TT106_on_low |-> tt_lo, TT106_on_high |-> tt_hi,
                     rho15_on_low |-> rho_lo, rho15_on_high |-> rho_hi,
                     dTsub_min |-> san["g_dTsub"],
                     delay_on_s |-> san["g_delay_on"],
                     delay_off_s |-> san["g_delay_off"],
                     TT106_off_low |-> tt_lo - WIDEN_TT * CfgScale,
                     TT106_off_high |-> tt_hi + WIDEN_TT * CfgScale,
                     rho15_off_low |-> rho_lo - WIDEN_RHO * (CfgScale \div 1000),
                     rho15_off_high |-> rho_hi + WIDEN_RHO * (CfgScale \div 1000),
                     dTsub_min_off |-> JsMax(0, san["g_dTsub"] - WIDEN_DTSUB * CfgScale) ],
          TEST |-> [analyzer_fail_enable |-> BoolOr(p["analyzerFail"], FALSE)] ]

\* the rest of build_cfg_from_params, from the values assigned: the gate's
\* limits put in order and widened, and the two flags
GateOrdered(san, p) ==
    LET tt_swap == san["g_tt_low"] > san["g_tt_high"]
        rho_swap == san["g_rho_low"] > san["g_rho_high"]
        tt_lo == IF tt_swap THEN san["g_tt_high"] ELSE san["g_tt_low"]
        tt_hi == IF tt_swap THEN san["g_tt_low"] ELSE san["g_tt_high"]
        rho_lo == IF rho_swap THEN san["g_rho_high"] ELSE san["g_rho_low"]
        rho_hi == IF rho_swap THEN san["g_rho_low"] ELSE san["g_rho_high"]
    IN  [ k |-> "cfg",
          san |-> san,
          SIM |-> [sim_s |-> san["sim_s"], dt |-> san["dt"],
                   noise |-> BoolOr(p["noise"], TRUE)],
          GATE |-> [ TT106_on_low |-> tt_lo, TT106_on_high |-> tt_hi,
                     rho15_on_low |-> rho_lo, rho15_on_high |-> rho_hi,
                     dTsub_min |-> san["g_dTsub"],
                     delay_on_s |-> san["g_delay_on"],
                     delay_off_s |-> san["g_delay_off"],
                     TT106_off_low |-> tt_lo - WIDEN_TT * CfgScale,
                     TT106_off_high |-> tt_hi + WIDEN_TT * CfgScale,
                     rho15_off_low |-> rho_lo - WIDEN_RHO * (CfgScale \div 1000),
                     rho15_off_high |-> rho_hi + WIDEN_RHO * (CfgScale \div 1000),
                     dTsub_min_off |-> JsMax(0, san["g_dTsub"] - WIDEN_DTSUB * CfgScale) ],
          TEST |-> [analyzer_fail_enable |-> BoolOr(p["analyzerFail"], FALSE)] ]

\* build_cfg_from_params(p): Threw, or the cfg.  san holds the value assigned
\* for each field; GATE holds the limits after the swap and the widening.
BuildCfg(p) ==
    LET res == [f \in NumFields |-> Sanitized(f, p[f])]
    IN  IF \E f \in NumFields : res[f].k = "throw" THEN Threw
        ELSE GateOrdered([f \in NumFields |-> res[f].v], p)

\* the fields of a request, and the request that sets none of them
ReqFields == NumFields \cup {"mode", "noise", "analyzerFail"}
NoRequest == [f \in ReqFields |-> JsUndefined]

\* values a request may hold in a numeric field
JsInputs ==
    {JsUndefined, JsNull, JsBool(TRUE), JsPlainObject, JsNoPrimitive,
     JsStr(""), JsStr(" "), JsStr("900"), JsStr("1e3"), JsStr("Infinity"), JsStr("abc"),
     JsNum(0), JsNum(0 - 5 * CfgScale), JsNum(CfgScale \div 4), JsNum(3 * CfgScale),
     JsNum(300 * CfgScale), JsNum(900 * CfgScale), JsNum(9000 * CfgScale),
     JsNum(NaN), JsNum(PInf), JsNum(NInf)}

\* the requests sent: a mode, and either one numeric field, or the two limits
\* of the TT106 window in the wrong order, or the two flags
Requests ==
    UNION { {[NoRequest EXCEPT !["mode"] = m, ![f] = x] :
                 f \in NumFields, x \in JsInputs}
            \cup {[NoRequest EXCEPT !["mode"] = m,
                                    !["g_tt_low"] = JsNum(130 * CfgScale),
                                    !["g_tt_high"] = x] :
                     x \in {JsNum(70 * CfgScale), JsNull, JsNoPrimitive}}
            \cup {[NoRequest EXCEPT !["mode"] = m, !["noise"] = b, !["analyzerFail"] = c] :
                     b \in {JsStr("false"), JsBool(FALSE)},
                     c \in {JsStr(" TRUE "), JsNum(CfgScale)}} :
            m \in {JsUndefined, JsStr("single"), JsStr("suite")} }

\* the three messages the handler posts; keys is the set of the message's fields
SuiteResponse == [keys |-> {"mode", "suite"}, mode |-> "suite", error |-> "none"]
SingleResponse ==
    [keys |-> {"mode", "chartData", "metrics", "gate", "eventLog"},
     mode |-> "single", error |-> "none"]
ErrorResponse_WithPartial(message) ==
    [keys |-> {"error", "chartData", "eventLog"}, mode |-> "none", error |-> message]
ErrorResponse(message) == [keys |-> {"error"}, mode |-> "none", error |-> message]

\* the worker after its script has run: no message yet
WorkerInit ==
    /\ fn = [slice |-> "worker", pc |-> "idle", p |-> NoRequest, cfg |-> Threw,
             out |-> <<>>]
    /\ cfg = Idle /\ pc = "idle" /\ ti = 0 /\ nsamples = 0
    /\ gate = GateNew /\ gate2 = GateNew /\ route_prev = "RECYCLE"
    /\ active_prev = {} /\ row = RowNone /\ route0 = "none"
    /\ stats = Idle /\ obs = Idle
    /\ ctl = Idle /\ pi = Idle /\ lvl = Idle /\ clk = Idle /\ runs = Idle
    /\ suite = Idle

\* a message arrives and self.onmessage is entered
WorkerReceive ==
    /\ fn.pc = "idle"
    /\ \E p \in Requests : fn' = [fn EXCEPT !.pc = "build", !.p = p]
    /\ UNCHANGED <<routeVars, ctl, pi, lvl, clk, runs, suite>>

\* const cfg = build_cfg_from_params(payload): a throw enters the catch block
WorkerBuild ==
    /\ fn.pc = "build"
    /\ LET c == BuildCfg(fn.p)
       IN  fn' = [fn EXCEPT !.cfg = c, !.pc = IF c.k = "throw" THEN "catch" ELSE "run"]
    /\ UNCHANGED <<routeVars, ctl, pi, lvl, clk, runs, suite>>

\* mode === "suite": run_test_suite(cfg), postMessage, return
WorkerSuite ==
    /\ fn.pc = "run"
    /\ fn.p["mode"] = JsStr("suite")
    /\ fn' = [fn EXCEPT !.pc = "done", !.out = Append(fn.out, SuiteResponse)]
    /\ UNCHANGED <<routeVars, ctl, pi, lvl, clk, runs, suite>>

\* any other mode: simulate(cfg), the metrics, the chart, postMessage
WorkerSingle ==
    /\ fn.pc = "run"
    /\ fn.p["mode"] # JsStr("suite")
    /\ fn' = [fn EXCEPT !.pc = "done", !.out = Append(fn.out, SingleResponse)]
    /\ UNCHANGED <<routeVars, ctl, pi, lvl, clk, runs, suite>>

\* catch (err): postMessage({ error: String(err?.message || err) })
WorkerCatch ==
    /\ fn.pc = "catch"
    /\ fn' = [fn EXCEPT !.pc = "done",
                        !.out = Append(fn.out,
                                       ErrorResponse("Cannot convert object to primitive value"))]
    /\ UNCHANGED <<routeVars, ctl, pi, lvl, clk, runs, suite>>

WorkerHandle == WorkerBuild \/ WorkerSuite \/ WorkerSingle \/ WorkerCatch

NextWorker == WorkerReceive \/ WorkerHandle

SpecWorker == WorkerInit /\ [][NextWorker]_vars

\* a handler that was entered runs to its end: the event loop runs one handler
\* at a time to completion, and every loop of the run is bounded by sim_s / dt
SpecWorkerFair == SpecWorker /\ WF_vars(WorkerHandle)

\* a numeric field that is absent, null, an empty string or not finite
TakesDefault(x) ==
    \/ x.k \in {"undefined", "null"}
    \/ x.k = "string" /\ x.v = ""
    \/ x.k = "number" /\ ~IsFinite(x.v)

\* what C16 states of a handler that is past build_cfg_from_params
SanitizedNoError ==
    /\ fn.cfg.k = "cfg"
    /\ 600 * CfgScale <= fn.cfg.SIM.sim_s /\ fn.cfg.SIM.sim_s <= 7200 * CfgScale
    /\ CfgScale \div 2 <= fn.cfg.SIM.dt /\ fn.cfg.SIM.dt <= 5 * CfgScale
    /\ \A f \in NumFields : TakesDefault(fn.p[f]) => fn.cfg.san[f] = FieldDefault(f)
    /\ \A i \in 1..Len(fn.out) : "error" \notin fn.out[i].keys

\* C16: for every request, build_cfg_from_params yields sim_s in [600, 7200]
\* and dt in [0.5, 5]; every numeric field that is absent, null, an empty
\* string or not finite takes its default; and no error response is posted.
C16_SanitizedNoError ==
    fn.pc \in {"run", "catch", "done"} => SanitizedNoError

\* the same statement for the requests whose numeric fields all convert to a
\* number
C16_PrimitivesSanitized ==
    (fn.pc \in {"run", "catch", "done"} /\ \A f \in NumFields : fn.p[f] # JsNoPrimitive)
        => SanitizedNoError

\* C18: every request is answered, eventually, by exactly one message, which
\* is a suite result, a single result or an error; when the handler threw, the
\* message has the error field and no other.
C18_OneResponse ==
    /\ (fn.pc = "build") ~> (fn.pc = "done" /\ Len(fn.out) = 1)
    /\ [](/\ Len(fn.out) <= 1
          /\ \A i \in 1..Len(fn.out) :
                /\ fn.out[i] \in {SuiteResponse, SingleResponse} \/ fn.out[i].keys = {"error"}
                /\ fn.cfg.k = "throw" => fn.out[i].keys = {"error"})

C18_Witness ==
    /\ fn.slice = "worker" /\ fn.pc = "done" /\ fn.cfg.k = "throw"
    /\ fn.p["sim_s"] = JsNoPrimitive
    /\ fn.out = <<ErrorResponse("Cannot convert object to primitive value")>>

\* the readings tried against a built gate: each limit, and one unit to either
\* side of it
GateProbes(lims) == UNION { {x - 1, x, x + 1} : x \in lims }

\* C29: for every configuration build_cfg_from_params produces (limits given in
\* the wrong order and a zero or negative g_dTsub included) the ON limits are
\* ordered, the OFF band contains the ON band, and no TT106, rho15 and dTsub make
\* on_ok and off_bad both true.
C29_OffBandContainsOnBand ==
    (fn.pc \in {"run", "done"} /\ fn.cfg.k = "cfg") =>
        LET G == fn.cfg.GATE
        IN  /\ G.TT106_on_low <= G.TT106_on_high
            /\ G.rho15_on_low <= G.rho15_on_high
            /\ G.TT106_off_low <= G.TT106_on_low
            /\ G.TT106_on_high <= G.TT106_off_high
            /\ G.rho15_off_low <= G.rho15_on_low
            /\ G.rho15_on_high <= G.rho15_off_high
            /\ G.dTsub_min_off <= G.dTsub_min
            /\ \A TT106 \in GateProbes({G.TT106_on_low, G.TT106_on_high,
                                         G.TT106_off_low, G.TT106_off_high}) :
               \A rho15 \in GateProbes({G.rho15_on_low, G.rho15_on_high,
                                         G.rho15_off_low, G.rho15_off_high}) :
               \A dTsub \in GateProbes({G.dTsub_min, G.dTsub_min_off}) :
                   ~(OnOk(G, TT106, rho15, dTsub) /\ OffBad(G, TT106, rho15, dTsub))

\* C29 witness: a request whose density limits arrive in the wrong order has
\* been built into a configuration, the two limits exchanged.
C29_Witness ==
    /\ fn.slice = "worker" /\ fn.pc = "done" /\ fn.cfg.k = "cfg"
    /\ fn.cfg.san["g_rho_low"] > fn.cfg.san["g_rho_high"]
    /\ fn.cfg.GATE.rho15_on_low = fn.cfg.san["g_rho_high"]
    /\ fn.cfg.GATE.rho15_on_high = fn.cfg.san["g_rho_low"]

----------------------------------------------------------------------------
(* run_test_suite as the worker calls it: the configuration of every test  *)
(* is a copy of the request's configuration with the test's own settings.  *)

\* the values a request may hold in noise and in analyzerFail
BoolInputs == {JsUndefined, JsBool(TRUE), JsBool(FALSE), JsStr("false"), JsStr(" TRUE ")}

\* suite requests: the two flags, and one numeric field
SuiteRequests ==
    { [NoRequest EXCEPT !["mode"] = JsStr("suite"), !["noise"] = b,
                        !["analyzerFail"] = c, ![f] = x] :
        b \in BoolInputs, c \in BoolInputs,
        f \in {"sim_s", "g_tt_low", "kpLIC201"},
        x \in {JsUndefined, JsNum(900 * CfgScale)} }

\* makeCfg that copies the base configuration and leaves its noise flag alone
MakeCfg_KeepsNoise(base) == base

\* makeCfg: a deep copy of base_cfg with SIM.noise = false
MakeCfg(base) == [base EXCEPT !.SIM.noise = FALSE]

\* the configuration of test k: makeCfg(), then the TEST fields the test assigns
TestCfg(base, k) ==
    LET test == SuiteTests[k]
    IN  [MakeCfg(base) EXCEPT
           !.TEST = [ sp_steps |-> test.sp_steps,
                      analyzer_fail_enable |-> test.analyzer_fail_enable,
                      t_analyzer_fail |-> test.t_analyzer_fail,
                      d_feed_temp |-> test.d_feed_temp,
                      d_vapor |-> test.d_vapor,
                      cw_degrade_drop |-> test.cw_degrade_drop ]]

\* the draws of Math.random a run makes when its noise is on
NoiseDraws == {1, 2}

\* One entry of results: simulate, summarize_metrics and gate_stats compute it
\* from the test's configuration and, with noise on, from the random draws of
\* plant.update.
SuiteEntry(name, c, draw) ==
    [name |-> name, cfg |-> c, draw |-> IF c.SIM.noise THEN draw ELSE 0]

SuiteReqInit ==
    /\ \E p \in SuiteRequests :
         fn = [slice |-> "suitereq", pc |-> "build", p |-> p, cfg |-> Threw,
               results |-> <<>>, out |-> <<>>]
    /\ cfg = Idle /\ pc = "idle" /\ ti = 0 /\ nsamples = 0
    /\ gate = GateNew /\ gate2 = GateNew /\ route_prev = "RECYCLE"
    /\ active_prev = {} /\ row = RowNone /\ route0 = "none"
    /\ stats = Idle /\ obs = Idle
    /\ ctl = Idle /\ pi = Idle /\ lvl = Idle /\ clk = Idle /\ runs = Idle
    /\ suite = Idle

\* const cfg = build_cfg_from_params(payload)
SuiteReqBuild ==
    /\ fn.pc = "build"
    /\ fn' = [fn EXCEPT !.cfg = BuildCfg(fn.p), !.pc = "tests"]
    /\ UNCHANGED <<routeVars, ctl, pi, lvl, clk, runs, suite>>

\* one pass of the loop over tests: simulate, the metrics, results.push
SuiteReqRun ==
    /\ fn.pc = "tests"
    /\ Len(fn.results) < Len(SuiteTests)
    /\ \E draw \in NoiseDraws :
         LET k == Len(fn.results) + 1
         IN  fn' = [fn EXCEPT !.results =
                       Append(fn.results,
                              SuiteEntry(SuiteTests[k].name, TestCfg(fn.cfg, k), draw))]
    /\ UNCHANGED <<routeVars, ctl, pi, lvl, clk, runs, suite>>

\* self.postMessage({ mode: "suite", suite })
SuiteReqPost ==
    /\ fn.pc = "tests"
    /\ Len(fn.results) = Len(SuiteTests)
    /\ fn' = [fn EXCEPT !.pc = "done",
                        !.out = <<[mode |-> "suite", suite |-> fn.results]>>]
    /\ UNCHANGED <<routeVars, ctl, pi, lvl, clk, runs, suite>>

NextSuiteReq == SuiteReqBuild \/ SuiteReqRun \/ SuiteReqPost

SpecSuiteReq == SuiteReqInit /\ [][NextSuiteReq]_vars

\* the request with its noise and analyzerFail fields removed
WithoutFlags(p) == [p EXCEPT !["noise"] = JsUndefined, !["analyzerFail"] = JsUndefined]

\* C21: every test of the suite runs with noise off, and the suite response is
\* the one the request without its noise and analyzerFail fields gets: two
\* suite requests that differ in those fields only return identical results.
C21_SuiteIgnoresFlags ==
    fn.pc \in {"tests", "done"} =>
        /\ \A i \in 1..Len(fn.results) :
              /\ ~fn.results[i].cfg.SIM.noise
              /\ fn.results[i] =
                   SuiteEntry(SuiteTests[i].name, TestCfg(BuildCfg(WithoutFlags(fn.p)), i), 0)
        /\ \A j \in 1..Len(fn.out) :
              fn.out[j].suite =
                [i \in 1..Len(SuiteTests) |->
                   SuiteEntry(SuiteTests[i].name, TestCfg(BuildCfg(WithoutFlags(fn.p)), i), 0)]

C21_Witness ==
    /\ fn.slice = "suitereq" /\ fn.pc = "done"
    /\ fn.p["noise"] = JsBool(TRUE) /\ fn.p["analyzerFail"] = JsStr(" TRUE ")
    /\ fn.cfg.SIM.noise /\ fn.cfg.TEST.analyzer_fail_enable
    /\ Len(fn.out) = 1 /\ Len(fn.out[1].suite) = Len(SuiteTests)
    /\ fn.out[1].suite[Len(SuiteTests)].cfg.TEST.analyzer_fail_enable

----------------------------------------------------------------------------
(* ramp on its own, called again and again on its own result as simulate   *)
(* does with each setpoint.  Setpoints and rates have units of 0.01; dt is *)
(* counted in half seconds.                                                *)

\* most calls of ramp in one run
MaxRampCalls == 4

\* ramp that tests the rate as given, without Math.abs
RampOf_NoAbs(prev_sp, target_sp, rate_per_s, dt2) ==
    IF ~IsFinite(rate_per_s) \/ rate_per_s <= 0 THEN target_sp
    ELSE Ramp(prev_sp, target_sp, (rate_per_s * dt2) \div 2)

\* ramp(prev_sp, target_sp, rate_per_s, dt): rate = Math.abs(rate_per_s), the
\* test of the rate, and the move by at most maxDelta = rate * dt
RampOf(prev_sp, target_sp, rate_per_s, dt2) ==
    LET rate == Abs(rate_per_s)
    IN  IF ~IsFinite(rate) \/ rate <= 0 THEN target_sp
        ELSE Ramp(prev_sp, target_sp, (rate * dt2) \div 2)

\* rates: negative, zero, the two of BASE_CONFIG.RAMP, and the non-finite ones
RampRates == {0 - 20, 0, 6, 20, NaN, PInf, NInf}

RampInit ==
    /\ \E sp \in {0, 4000, 5500} : \E target \in {0, 5000, 5003, 5500} :
       \E rate \in RampRates : \E dt2 \in {1, 2, 10} :
         fn = [slice |-> "ramp", sp |-> sp, target |-> target, rate |-> rate,
               dt2 |-> dt2, prev |-> sp, k |-> 0]
    /\ cfg = Idle /\ pc = "idle" /\ ti = 0 /\ nsamples = 0
    /\ gate = GateNew /\ gate2 = GateNew /\ route_prev = "RECYCLE"
    /\ active_prev = {} /\ row = RowNone /\ route0 = "none"
    /\ stats = Idle /\ obs = Idle
    /\ ctl = Idle /\ pi = Idle /\ lvl = Idle /\ clk = Idle /\ runs = Idle
    /\ suite = Idle

\* sp = ramp(sp, sp_target, rate, dt)
RampCall ==
    /\ fn.k < MaxRampCalls
    /\ fn' = [fn EXCEPT !.prev = fn.sp,
                        !.sp = RampOf(fn.sp, fn.target, fn.rate, fn.dt2),
                        !.k = fn.k + 1]
    /\ UNCHANGED <<routeVars, ctl, pi, lvl, clk, runs, suite>>

NextRamp == RampCall

SpecRamp == RampInit /\ [][NextRamp]_vars

\* what a call with the largest move m has to return: a value between prev and
\* target, no further than m from prev, and target itself when it is in reach
RampedBy(m) ==
    /\ Min(fn.prev, fn.target) <= fn.sp /\ fn.sp <= Max(fn.prev, fn.target)
    /\ Abs(fn.sp - fn.prev) <= m
    /\ Abs(fn.target - fn.prev) <= m => fn.sp = fn.target

\* C24 as claimed: ramp returns target at once when the rate is <= 0 or not
\* finite; otherwise it returns a value between prev and target, at most
\* rate * dt from prev, and target itself once |target - prev| <= rate * dt.
C24_RampJumpsForRateLeqZero ==
    fn.k > 0 =>
        IF ~IsFinite(fn.rate) \/ fn.rate <= 0 THEN fn.sp = fn.target
        ELSE RampedBy((fn.rate * fn.dt2) \div 2)

\* C24 amended: ramp returns target at once when the rate is 0 or not finite;
\* otherwise, negative rates included, it moves by at most |rate| * dt.
C24_RampByAbsRate ==
    fn.k > 0 =>
        IF ~IsFinite(fn.rate) \/ fn.rate = 0 THEN fn.sp = fn.target
        ELSE RampedBy((Abs(fn.rate) * fn.dt2) \div 2)

C24_Witness ==
    /\ fn.slice = "ramp" /\ fn.k = 2 /\ fn.rate = 0 - 20 /\ fn.dt2 = 10
    /\ fn.target = 5003 /\ fn.prev = 4100 /\ fn.sp = 4200

----------------------------------------------------------------------------
(* One FOPDTDev block on its own: reset, then update calls.  The block has *)
(* K = 1 and tau = dt = 1 s, so that the y a call returns is               *)
(* y0 + (u_del - u0): the delayed input the call used shows in its result. *)

\* longest dead time of the block in steps, and most update calls
MaxTheta == 2
MaxFopdtCalls == 4

\* new FOPDTDev(1, 1, theta, 0, 3, 1)
BlockPar(theta) == [Kn |-> 1, Kd |-> 1, tau |-> 1, theta |-> theta, y0 |-> 0, u0 |-> 3]

BlockInit ==
    /\ \E theta \in 0..MaxTheta :
         fn = [slice |-> "fopdt", p |-> BlockPar(theta),
               g |-> FopdtReset(BlockPar(theta)), hist |-> <<>>]
    /\ cfg = Idle /\ pc = "idle" /\ ti = 0 /\ nsamples = 0
    /\ gate = GateNew /\ gate2 = GateNew /\ route_prev = "RECYCLE"
    /\ active_prev = {} /\ row = RowNone /\ route0 = "none"
    /\ stats = Idle /\ obs = Idle
    /\ ctl = Idle /\ pi = Idle /\ lvl = Idle /\ clk = Idle /\ runs = Idle
    /\ suite = Idle

\* update(u): hist keeps the inputs of the calls made
BlockUpdate ==
    /\ Len(fn.hist) < MaxFopdtCalls
    /\ \E u \in {5, 7, 9} :
         fn' = [fn EXCEPT !.g = FopdtUpdate(fn.p, fn.g, u, 0),
                          !.hist = Append(fn.hist, u)]
    /\ UNCHANGED <<routeVars, ctl, pi, lvl, clk, runs, suite>>

NextBlock == BlockUpdate

SpecBlock == BlockInit /\ [][NextBlock]_vars

\* the input of the call made `back` calls before the last one, u0 when there
\* was no such call
InputBefore(back) ==
    IF Len(fn.hist) - back >= 1 THEN fn.hist[Len(fn.hist) - back] ELSE fn.p.u0

\* C25 as claimed: after every update the buffer has delay_steps + 1 entries
\* and the delayed input the call used is the input passed delay_steps calls
\* earlier, u0 when there are fewer earlier calls.
C25_DelayIsDelaySteps ==
    Len(fn.hist) > 0 =>
        /\ Len(fn.g.buf) = fn.p.theta + 1
        /\ fn.g.y = fn.p.y0 + (InputBefore(fn.p.theta) - fn.p.u0)

\* what the block does: the input used is the one passed delay_steps + 1 calls
\* earlier
C25_DelayIsOneStepMore ==
    Len(fn.hist) > 0 =>
        /\ Len(fn.g.buf) = fn.p.theta + 1
        /\ fn.g.y = fn.p.y0 + (InputBefore(fn.p.theta + 1) - fn.p.u0)

====
